---------------------------- MODULE Spec2Model ----------------------------
(***************************************************************************)
(* Model of the reddit-markdown exporter (rust/src): the reply flattener   *)
(* get_replies and the child-reply renderer, the content filter            *)
(* apply_filter, and the path resolver generate_filename.                  *)
(*                                                                         *)
(* Strings of the program are sequences of one-character strings, so that  *)
(* trim, to_lowercase, contains and the path operations are computed.      *)
(***************************************************************************)
EXTENDS Integers, Sequences, FiniteSets, TLC

VARIABLES
    pc,            \* position of the modelled run
    reply_obj,     \* the top-level comment handed to the reply processor
    reply_depth_max, \* settings.reply_depth_max
    replies_extras,  \* result of get_replies in count_total_replies
    lines,         \* the renderer's fragment list
    filter_in,     \* the arguments of a call of apply_filter
    filter_out,    \* the value the call returned
    settings,      \* overwrite_existing_file, file_format, use_timestamped_directories
    files,         \* the files on disk: path -> the document written there
    dirs,          \* the directories on disk
    job,           \* the post being processed: url, subreddit, timestamp
    target_path,   \* the path generate_filename returned for it
    probed,        \* the paths whose existence that call tested, in order
    resolved,      \* every path returned so far, in order
    writes,        \* the calls of fs::write so far, in order
    post_data,     \* the post record handed to build_post_content
    replies_data,  \* the listing of top-level comments handed to it
    env,           \* what the file system and the downloader answer
    result,        \* what build_post_content or process_media returned
    fmt_in,        \* the arguments of a call of format_upvotes
    fmt_out        \* the string the call returned

vars == <<pc, reply_obj, reply_depth_max, replies_extras, lines,
          filter_in, filter_out,
          settings, files, dirs, job, target_path, probed, resolved,
          writes, post_data, replies_data, env, result, fmt_in, fmt_out>>

replyVars == <<reply_obj, reply_depth_max, replies_extras, lines>>
filterVars == <<filter_in, filter_out>>
fileVars == <<settings, files, dirs, job, target_path, probed, resolved>>
docVars == <<writes, post_data, replies_data, env, result>>
fmtVars == <<fmt_in, fmt_out>>

\* value of the variables a specification does not use
Unused == <<>>

DocUnused ==
    /\ writes = <<>>
    /\ post_data = Unused
    /\ replies_data = <<>>
    /\ env = Unused
    /\ result = Unused

FmtUnused ==
    /\ fmt_in = Unused
    /\ fmt_out = Unused

FilesUnused ==
    /\ settings = Unused
    /\ files = Unused
    /\ dirs = {}
    /\ job = Unused
    /\ target_path = Unused
    /\ probed = <<>>
    /\ resolved = <<>>

---------------------------------------------------------------------------
(* Bounds of the inputs *)

\* largest number of descendant comments below the top-level comment
MaxNodes == 3

\* values of the "id" field; <<>> is also what a missing id is read as
Ids == {<<>>, <<"c">>}

\* values of the payload "depth" field of a descendant
Depths == {1, 2}

\* values of the "body" field: empty, whitespace-only, text
Bodies == {<<>>, <<" ">>, <<"h">>}

\* values of settings.reply_depth_max; -1 is the unlimited sentinel
DepthLimits == {-1, 0, 1}

---------------------------------------------------------------------------
(* str::trim *)

Whitespace == {" ", "\t", "\n", "\r"}

RECURSIVE TrimStart(_)
TrimStart(s) ==
    IF s # <<>> /\ Head(s) \in Whitespace THEN TrimStart(Tail(s)) ELSE s

RECURSIVE TrimEnd(_)
TrimEnd(s) ==
    IF s # <<>> /\ s[Len(s)] \in Whitespace
    THEN TrimEnd(SubSeq(s, 1, Len(s) - 1))
    ELSE s

Trim(s) == TrimEnd(TrimStart(s))

\* the decimal digits of a natural number
RECURSIVE ToDecimal(_)
ToDecimal(k) ==
    IF k < 10 THEN <<ToString(k)>> ELSE ToDecimal(k \div 10) \o <<ToString(k % 10)>>

---------------------------------------------------------------------------
(* The reply payload: a comment is a record with its id, depth and body    *)
(* fields and the array data.replies.data.children.  pos is the place of   *)
(* the comment in the payload (the index path from the top-level comment). *)

\* the id of a comment with a blank body is never used: one value is enough
NodeFields ==
    { f \in [id : Ids, depth : Depths, body : Bodies] :
        Trim(f.body) = <<>> => f.id = <<>> }

RECURSIVE ForestsOfSize(_)
ForestsOfSize(n) ==
    IF n = 0 THEN {<<>>}
    ELSE UNION {
        { <<[id |-> a.id, depth |-> a.depth, body |-> a.body, children |-> c]>> \o rest :
            a \in NodeFields, c \in ForestsOfSize(k - 1), rest \in ForestsOfSize(n - k) }
        : k \in 1..n }

RECURSIVE Place(_, _)
Place(forest, prefix) ==
    [i \in 1..Len(forest) |->
        [id |-> forest[i].id, depth |-> forest[i].depth, body |-> forest[i].body,
         pos |-> Append(prefix, i),
         children |-> Place(forest[i].children, Append(prefix, i))]]

\* the top-level comment whose replies are the forest f
TopLevelComment(f) ==
    [id |-> <<"t">>, depth |-> 0, body |-> <<"h">>, pos |-> <<>>,
     children |-> Place(f, <<>>)]

---------------------------------------------------------------------------
(* serde_json::Value: a record holds the keys that are present; reading a *)
(* key that is absent gives Null, and as_str / as_i64 / as_bool / as_array *)
(* followed by unwrap_or give the default                                  *)

Field(obj, key, default) == IF key \in DOMAIN obj THEN obj[key] ELSE default

---------------------------------------------------------------------------
(* HashMap<String, _>: a function from the keys present to their values *)

EmptyMap == <<>>

\* HashMap::insert: replaces the value of a key already present
MapInsert(m, k, v) == (k :> v) @@ m

\* HashMap::extend: inserts every pair of other, replacing present keys
MapExtend(m, other) == other @@ m

(* get_replies without the depth test *)
RECURSIVE get_replies_nolimit(_, _)
get_replies_nolimit(reply_data, max_depth) ==
    LET children == Field(reply_data, "children", <<>>)
        RECURSIVE Loop(_, _)
        Loop(i, collected) ==
            IF i > Len(children) THEN collected
            ELSE LET child == children[i]
                     child_id == Field(child, "id", <<>>)
                     child_depth == Field(child, "depth", 0)
                     child_body == Field(child, "body", <<>>) IN
                 IF Trim(child_body) = <<>>
                 THEN Loop(i + 1, collected)
                 ELSE Loop(i + 1,
                        MapExtend(
                            MapInsert(collected, child_id,
                                      [depth |-> child_depth, child_reply |-> child]),
                            get_replies_nolimit(child, max_depth)))
    IN Loop(1, EmptyMap)

(* get_replies that descends into a comment skipped for its depth *)
RECURSIVE get_replies_descend(_, _)
get_replies_descend(reply_data, max_depth) ==
    LET children == Field(reply_data, "children", <<>>)
        RECURSIVE Loop(_, _)
        Loop(i, collected) ==
            IF i > Len(children) THEN collected
            ELSE LET child == children[i]
                     child_id == Field(child, "id", <<>>)
                     child_depth == Field(child, "depth", 0)
                     child_body == Field(child, "body", <<>>) IN
                 IF max_depth # -1 /\ child_depth > max_depth
                 THEN Loop(i + 1,
                        MapExtend(collected, get_replies_descend(child, max_depth)))
                 ELSE IF Trim(child_body) = <<>>
                 THEN Loop(i + 1, collected)
                 ELSE Loop(i + 1,
                        MapExtend(
                            MapInsert(collected, child_id,
                                      [depth |-> child_depth, child_reply |-> child]),
                            get_replies_descend(child, max_depth)))
    IN Loop(1, EmptyMap)

(* get_replies that leaves the loop at a comment skipped for its depth *)
RECURSIVE get_replies_break(_, _)
get_replies_break(reply_data, max_depth) ==
    LET children == Field(reply_data, "children", <<>>)
        RECURSIVE Loop(_, _)
        Loop(i, collected) ==
            IF i > Len(children) THEN collected
            ELSE LET child == children[i]
                     child_id == Field(child, "id", <<>>)
                     child_depth == Field(child, "depth", 0)
                     child_body == Field(child, "body", <<>>) IN
                 IF max_depth # -1 /\ child_depth > max_depth
                 THEN collected                               \* break
                 ELSE IF Trim(child_body) = <<>>
                 THEN Loop(i + 1, collected)
                 ELSE Loop(i + 1,
                        MapExtend(
                            MapInsert(collected, child_id,
                                      [depth |-> child_depth, child_reply |-> child]),
                            get_replies_break(child, max_depth)))
    IN Loop(1, EmptyMap)

(* get_replies that keeps the entry an id already has *)
RECURSIVE get_replies_keep_first(_, _)
get_replies_keep_first(reply_data, max_depth) ==
    LET children == Field(reply_data, "children", <<>>)
        RECURSIVE Loop(_, _)
        Loop(i, collected) ==
            IF i > Len(children) THEN collected
            ELSE LET child == children[i]
                     child_id == Field(child, "id", <<>>)
                     child_depth == Field(child, "depth", 0)
                     child_body == Field(child, "body", <<>>) IN
                 IF max_depth # -1 /\ child_depth > max_depth
                 THEN Loop(i + 1, collected)
                 ELSE IF Trim(child_body) = <<>>
                 THEN Loop(i + 1, collected)
                 ELSE Loop(i + 1,
                        (collected @@ (child_id :> [depth |-> child_depth, child_reply |-> child]))
                            @@ get_replies_keep_first(child, max_depth))
    IN Loop(1, EmptyMap)

(* get_replies: the loop over data.replies.data.children *)
RECURSIVE get_replies(_, _)
get_replies(reply_data, max_depth) ==
    LET children == Field(reply_data, "children", <<>>)
        RECURSIVE Loop(_, _)
        Loop(i, collected) ==
            IF i > Len(children) THEN collected
            ELSE LET child == children[i]
                     child_id == Field(child, "id", <<>>)
                     child_depth == Field(child, "depth", 0)
                     child_body == Field(child, "body", <<>>) IN
                 IF max_depth # -1 /\ child_depth > max_depth
                 THEN Loop(i + 1, collected)                  \* continue
                 ELSE IF Trim(child_body) = <<>>
                 THEN Loop(i + 1, collected)                  \* continue
                 ELSE Loop(i + 1,
                        MapExtend(
                            MapInsert(collected, child_id,
                                      [depth |-> child_depth, child_reply |-> child]),
                            get_replies(child, max_depth)))
    IN Loop(1, EmptyMap)

---------------------------------------------------------------------------
(* The content filter, filters.rs *)

\* char::to_lowercase on the characters of the model
LowerChar(c) ==
    CASE c = "A" -> "a" [] c = "B" -> "b" [] c = "H" -> "h" [] c = "T" -> "t"
      [] c = "M" -> "m" [] c = "L" -> "l" [] c = "D" -> "d" [] OTHER -> c

\* str::to_lowercase
to_lowercase(s) == [i \in 1..Len(s) |-> LowerChar(s[i])]

\* str::contains(&str): sub occurs in s as a contiguous substring
contains(s, sub) ==
    \E i \in 0..(Len(s) - Len(sub)) : SubSeq(s, i + 1, i + Len(sub)) = sub

\* Regex::new(rgx).is_ok(): of the patterns modelled (literals, "." and
\* "["), those with a "[" have an unclosed character class
RegexCompiles(rgx) == \A i \in 1..Len(rgx) : rgx[i] # "["

\* Regex::is_match: unanchored search; "." matches any character but \n
AtomMatches(atom, c) == IF atom = "." THEN c # "\n" ELSE atom = c

is_match(rgx, text) ==
    \E i \in 0..(Len(text) - Len(rgx)) :
        \A j \in 1..Len(rgx) : AtomMatches(rgx[j], text[i + j])

\* Vec<String>::contains
ListContains(list, x) == \E i \in 1..Len(list) : list[i] = x

(* apply_filter that compares keywords without folding case *)
apply_filter_case_sensitive(author, text, upvotes, filtered_keywords, filtered_authors, min_upvotes, filtered_regexes, filtered_message) ==
    IF \E i \in 1..Len(filtered_keywords) : contains(text, filtered_keywords[i])
    THEN filtered_message
    ELSE IF ListContains(filtered_authors, author)
    THEN filtered_message
    ELSE IF upvotes < min_upvotes
    THEN filtered_message
    ELSE IF \E i \in 1..Len(filtered_regexes) :
            RegexCompiles(filtered_regexes[i]) /\ is_match(filtered_regexes[i], text)
    THEN filtered_message
    ELSE text

(* apply_filter whose score test is upvotes <= min_upvotes *)
apply_filter_exclusive_min(author, text, upvotes, filtered_keywords, filtered_authors, min_upvotes, filtered_regexes, filtered_message) ==
    IF \E i \in 1..Len(filtered_keywords) :
            contains(to_lowercase(text), to_lowercase(filtered_keywords[i]))
    THEN filtered_message
    ELSE IF ListContains(filtered_authors, author)
    THEN filtered_message
    ELSE IF upvotes <= min_upvotes
    THEN filtered_message
    ELSE IF \E i \in 1..Len(filtered_regexes) :
            RegexCompiles(filtered_regexes[i]) /\ is_match(filtered_regexes[i], text)
    THEN filtered_message
    ELSE text

(* apply_filter whose regex loop ends at the first pattern that fails to compile *)
apply_filter_stop_at_invalid(author, text, upvotes, filtered_keywords, filtered_authors, min_upvotes, filtered_regexes, filtered_message) ==
    IF \E i \in 1..Len(filtered_keywords) :
            contains(to_lowercase(text), to_lowercase(filtered_keywords[i]))
    THEN filtered_message
    ELSE IF ListContains(filtered_authors, author)
    THEN filtered_message
    ELSE IF upvotes < min_upvotes
    THEN filtered_message
    ELSE IF \E i \in 1..Len(filtered_regexes) :
            /\ \A j \in 1..i : RegexCompiles(filtered_regexes[j])
            /\ is_match(filtered_regexes[i], text)
    THEN filtered_message
    ELSE text

(* apply_filter: keywords, then authors, then the score, then the regexes; *)
(* each test that matches returns filtered_message                         *)
apply_filter(author, text, upvotes, filtered_keywords, filtered_authors, min_upvotes, filtered_regexes, filtered_message) ==
    IF \E i \in 1..Len(filtered_keywords) :
            contains(to_lowercase(text), to_lowercase(filtered_keywords[i]))
    THEN filtered_message
    ELSE IF ListContains(filtered_authors, author)
    THEN filtered_message
    ELSE IF upvotes < min_upvotes
    THEN filtered_message
    ELSE IF \E i \in 1..Len(filtered_regexes) :
            RegexCompiles(filtered_regexes[i]) /\ is_match(filtered_regexes[i], text)
    THEN filtered_message
    ELSE text

---------------------------------------------------------------------------
(* The child-reply renderer *)

\* the orders in which a HashMap with these keys can be iterated
IterationOrders(m) ==
    { o \in [1..Cardinality(DOMAIN m) -> DOMAIN m] :
        \A i, j \in 1..Cardinality(DOMAIN m) : i # j => o[i] # o[j] }

\* the filter policy and replacement text of the settings the replies are
\* rendered with: no keyword, author or regex, min_upvotes 0
RenderFilters ==
    [keywords |-> <<>>, authors |-> <<>>, min_upvotes |-> 0, regexes |-> <<>>,
     filtered_message |-> <<"x">>]

\* the settings of the runs that render the descendants of one comment
ReplySettings ==
    [filters |-> RenderFilters, filtered_message |-> RenderFilters.filtered_message,
     show_upvotes |-> TRUE, show_timestamp |-> FALSE,
     reply_depth_color_indicators |-> TRUE]

DeletedBody == <<"[deleted]">>

\* the palette main.rs hands to the renderer: nine colour glyphs
Colors ==
    <<"green", "yellow", "orange", "blue", "purple", "red", "brown", "black", "white">>

\* chrono::DateTime::from_timestamp(t, 0) formatted as %Y-%m-%d %H:%M:%S, for
\* the times of the model
FormatDateTime(t) ==
    CASE t = 1672574400 -> "2023-01-01 12:00:00"
      [] t = 1 -> "1970-01-01 00:00:01"
      [] OTHER -> "1970-01-01 00:00:00"

\* "\t".repeat(n)
Tabs(n) == [i \in 1..n |-> "\t"]

(* format_upvotes that rounds the thousands to the nearest *)
format_upvotes_rounded(upvotes, show_upvotes) ==
    IF show_upvotes /\ upvotes > 0
    THEN IF upvotes >= 1000
         THEN <<"^", " ">>
              \o ToDecimal(upvotes \div 1000 + (IF upvotes % 1000 >= 500 THEN 1 ELSE 0))
              \o <<"k">>
         ELSE <<"^", " ">> \o ToDecimal(upvotes)
    ELSE <<>>

(* format_upvotes: "^" stands for the up-arrow glyph; the division of two  *)
(* positive i32 truncates                                                   *)
format_upvotes(upvotes, show_upvotes) ==
    IF show_upvotes /\ upvotes > 0
    THEN IF upvotes >= 1000
         THEN <<"^", " ">> \o ToDecimal(upvotes \div 1000) \o <<"k">>
         ELSE <<"^", " ">> \o ToDecimal(upvotes)
    ELSE <<>>

format_timestamp(timestamp, show_timestamp) ==
    IF show_timestamp /\ timestamp # "" THEN <<"_( ", timestamp, " )_">> ELSE <<>>

format_author_link(author) ==
    IF author # <<>> /\ author # <<"[deleted]">>
    THEN <<"[">> \o author \o <<"](https://www.reddit.com/user/">> \o author \o <<")">>
    ELSE author

format_author_with_op_marker(author, post_author) ==
    LET author_link == format_author_link(author)
    IN IF author = post_author /\ author_link # <<>>
       THEN author_link \o <<" (OP)">>
       ELSE author_link

\* format_comment_body on the characters of the model ("&gt;" is one
\* character of it; its bodies hold no u/ mention)
RECURSIVE format_comment_body(_)
format_comment_body(body) ==
    IF body = <<>> THEN <<>>
    ELSE LET c == Head(body) IN
         (CASE c = "&gt;" -> <<">">>
            [] c = "\n" -> <<"\n", "\t">>
            [] c = "\r" -> <<>>
            [] OTHER -> <<c>>) \o format_comment_body(Tail(body))

\* format_child_comment_body; indent is the number of tabs
RECURSIVE format_child_comment_body(_, _)
format_child_comment_body(body, indent) ==
    IF body = <<>> THEN <<>>
    ELSE LET c == Head(body) IN
         (CASE c = "&gt;" -> <<">">>
            [] c = "&#32;" -> <<" ">>
            [] c = "^^[" -> <<"[">>
            [] c = "^^(" -> <<"(">>
            [] c = "\n" -> <<"\n">> \o Tabs(indent) \o <<"\t">>
            [] OTHER -> <<c>>) \o format_child_comment_body(Tail(body), indent)

\* extract_reply_timestamp
extract_reply_timestamp(created_utc, conf) ==
    IF conf.show_timestamp /\ created_utc > 0 THEN FormatDateTime(created_utc) ELSE ""

(* process_child_reply_body that has no branch for the deletion sentinel *)
process_child_reply_body_no_sentinel(child_body, child_author, child_upvotes, indent, conf) ==
    IF Trim(child_body) = <<>> THEN <<>>
    ELSE <<[kind |-> "body", indent |-> indent + 1, of |-> child_body,
            text |-> format_child_comment_body(
                        apply_filter(child_author, child_body, child_upvotes,
                                     conf.filters.keywords, conf.filters.authors,
                                     conf.filters.min_upvotes, conf.filters.regexes,
                                     conf.filtered_message), indent)]>>

\* process_child_reply_body: nothing for a blank body, the placeholder line
\* for the deletion sentinel, else the filtered and formatted body; of is the
\* body handed to apply_filter
process_child_reply_body(child_body, child_author, child_upvotes, indent, conf) ==
    IF Trim(child_body) = <<>> THEN <<>>
    ELSE IF child_body = DeletedBody
    THEN <<[kind |-> "deleted", indent |-> indent + 1, text |-> <<>>]>>
    ELSE <<[kind |-> "body", indent |-> indent + 1, of |-> child_body,
            text |-> format_child_comment_body(
                        apply_filter(child_author, child_body, child_upvotes,
                                     conf.filters.keywords, conf.filters.authors,
                                     conf.filters.min_upvotes, conf.filters.regexes,
                                     conf.filtered_message), indent)]>>

(* process_child_reply that cycles through the palette past its end *)
process_child_reply_cycle(child_info, conf, colors, post_author) ==
    LET cdepth == child_info.depth
        child_reply == child_info.child_reply
        child_author == Field(child_reply, "author", <<>>)
        child_upvotes == Field(child_reply, "ups", 0)
        child_body == Field(child_reply, "body", <<>>)
        child_created_utc == Field(child_reply, "created_utc", 0)
        color_symbol == IF conf.reply_depth_color_indicators /\ colors # <<>>
                        THEN colors[(cdepth % Len(colors)) + 1] ELSE ""
    IN <<[kind |-> "header", indent |-> cdepth, reply |-> child_reply.pos,
          color |-> color_symbol,
          author |-> format_author_with_op_marker(child_author, post_author),
          upvotes |-> format_upvotes(child_upvotes, conf.show_upvotes),
          timestamp |-> format_timestamp(
                            extract_reply_timestamp(child_created_utc, conf),
                            conf.show_timestamp)]>>
       \o process_child_reply_body(child_body, child_author, child_upvotes, cdepth, conf)

\* process_child_reply: the header line, indented by the recorded depth,
\* then the body; reply is the place in the payload of the comment rendered
process_child_reply(child_info, conf, colors, post_author) ==
    LET cdepth == child_info.depth
        child_reply == child_info.child_reply
        child_author == Field(child_reply, "author", <<>>)
        child_upvotes == Field(child_reply, "ups", 0)
        child_body == Field(child_reply, "body", <<>>)
        child_created_utc == Field(child_reply, "created_utc", 0)
        color_symbol == IF conf.reply_depth_color_indicators /\ cdepth < Len(colors)
                        THEN colors[cdepth + 1] ELSE ""
    IN <<[kind |-> "header", indent |-> cdepth, reply |-> child_reply.pos,
          color |-> color_symbol,
          author |-> format_author_with_op_marker(child_author, post_author),
          upvotes |-> format_upvotes(child_upvotes, conf.show_upvotes),
          timestamp |-> format_timestamp(
                            extract_reply_timestamp(child_created_utc, conf),
                            conf.show_timestamp)]>>
       \o process_child_reply_body(child_body, child_author, child_upvotes, cdepth, conf)

RECURSIVE RenderInOrder(_, _, _, _, _, _)
RenderInOrder(child_map, order, i, conf, colors, post_author) ==
    IF i > Len(order) THEN <<>>
    ELSE process_child_reply(child_map[order[i]], conf, colors, post_author)
         \o RenderInOrder(child_map, order, i + 1, conf, colors, post_author)

InitReplies ==
    /\ pc = "count"
    /\ \E n \in 0..MaxNodes : \E f \in ForestsOfSize(n) :
          reply_obj = TopLevelComment(f)
    /\ reply_depth_max \in DepthLimits
    /\ replies_extras = EmptyMap
    /\ lines = <<>>
    /\ filter_in = Unused
    /\ filter_out = Unused
    /\ FilesUnused
    /\ DocUnused
    /\ FmtUnused

\* count_total_replies: get_replies over the top-level comment
CountTotalReplies ==
    /\ pc = "count"
    /\ replies_extras' = get_replies(reply_obj, reply_depth_max)
    /\ pc' = "children"
    /\ UNCHANGED <<reply_obj, reply_depth_max, lines>>
    /\ UNCHANGED filterVars
    /\ UNCHANGED fileVars
    /\ UNCHANGED <<docVars, fmtVars>>

\* process_child_replies: get_replies again, then one process_child_reply
\* per entry in the map's iteration order
ProcessChildReplies ==
    /\ pc = "children"
    /\ LET child_map == get_replies(reply_obj, reply_depth_max) IN
       \E order \in IterationOrders(child_map) :
           lines' = lines \o RenderInOrder(child_map, order, 1, ReplySettings, Colors, <<"u">>)
    /\ pc' = "rendered"
    /\ UNCHANGED <<reply_obj, reply_depth_max, replies_extras>>
    /\ UNCHANGED filterVars
    /\ UNCHANGED fileVars
    /\ UNCHANGED <<docVars, fmtVars>>

NextReplies == CountTotalReplies \/ ProcessChildReplies

SpecReplies == InitReplies /\ [][NextReplies]_vars

---------------------------------------------------------------------------
(* Vocabulary of the properties of the flattener *)

\* every comment below node, at any level
RECURSIVE Descendants(_)
Descendants(node) ==
    UNION { {node.children[i]} \cup Descendants(node.children[i]) :
            i \in 1..Len(node.children) }

\* the comment of the payload that holds n in its children array
ParentOf(n) ==
    IF Len(n.pos) = 1 THEN reply_obj
    ELSE CHOOSE p \in Descendants(reply_obj) : p.pos = SubSeq(n.pos, 1, Len(n.pos) - 1)

OverLimit(n) == reply_depth_max # -1 /\ n.depth > reply_depth_max

Blank(n) == Trim(n.body) = <<>>

\* the flattener's loop reaches n: it is a child of the top-level comment or
\* of a comment that was emitted
RECURSIVE Met(_)
Met(n) ==
    \/ Len(n.pos) = 1
    \/ LET p == ParentOf(n) IN Met(p) /\ ~OverLimit(p) /\ ~Blank(p)

\* the map holds an entry made from the comment n
InResult(m, n) == \E k \in DOMAIN m : m[k].child_reply.pos = n.pos

\* depth-first pre-order of two places of the payload
RECURSIVE PreOrderBefore(_, _)
PreOrderBefore(a, b) ==
    IF a = <<>> THEN b # <<>>
    ELSE IF b = <<>> THEN FALSE
    ELSE IF Head(a) # Head(b) THEN Head(a) < Head(b)
    ELSE PreOrderBefore(Tail(a), Tail(b))

IsHeader(l) == l.kind = "header"

Headers == SelectSeq(lines, IsHeader)

---------------------------------------------------------------------------
(* C1: the descendants rendered for a top-level comment appear in depth-    *)
(* first pre-order, siblings in the order of the payload.                   *)
C1_RenderedInPreOrder ==
    pc = "rendered" =>
        \A i, j \in 1..Len(Headers) :
            i < j => PreOrderBefore(Headers[i].reply, Headers[j].reply)

(* C2: with a depth limit other than -1, every entry returned by            *)
(* get_replies has a payload depth (and a recorded depth) within the limit. *)
C2_DepthWithinLimit ==
    (pc # "count" /\ reply_depth_max # -1) =>
        \A k \in DOMAIN replies_extras :
            /\ replies_extras[k].child_reply.depth <= reply_depth_max
            /\ replies_extras[k].depth <= reply_depth_max

\* a limited run that returned an entry and skipped a met comment for its depth
C2_Witness ==
    /\ pc # "count"
    /\ reply_depth_max # -1
    /\ DOMAIN replies_extras # {}
    /\ \E n \in Descendants(reply_obj) : Met(n) /\ OverLimit(n) /\ ~Blank(n)

(* C3: a met comment with a blank body is not emitted but its children are  *)
(* visited: each non-blank child within the limit is in the result.         *)
C3_BlankParentChildrenEmitted ==
    pc # "count" =>
        \A e \in Descendants(reply_obj) :
            (Met(e) /\ Blank(e) /\ ~OverLimit(e)) =>
                /\ ~InResult(replies_extras, e)
                /\ \A i \in 1..Len(e.children) :
                       LET c == e.children[i] IN
                       (~Blank(c) /\ ~OverLimit(c)) => InResult(replies_extras, c)

(* C4: with the limit -1, get_replies yields every descendant with a        *)
(* non-blank body, at whatever depth and place.                             *)
C4_UnlimitedYieldsAll ==
    (pc # "count" /\ reply_depth_max = -1) =>
        \A d \in Descendants(reply_obj) : ~Blank(d) => InResult(replies_extras, d)

(* C5: no descendant of a comment whose depth exceeds the limit is in the   *)
(* result, even one whose own depth is within the limit.                    *)
C5_PrunedBranchAbsent ==
    pc # "count" =>
        \A p \in Descendants(reply_obj) :
            OverLimit(p) => \A d \in Descendants(p) : ~InResult(replies_extras, d)

\* a met comment skipped for its depth has a non-blank child within the limit
C5_Witness ==
    /\ pc # "count"
    /\ \E p \in Descendants(reply_obj) :
          /\ Met(p) /\ OverLimit(p) /\ ~Blank(p)
          /\ \E i \in 1..Len(p.children) :
                ~OverLimit(p.children[i]) /\ ~Blank(p.children[i])

---------------------------------------------------------------------------
(* The calls of the content filter *)

\* longest comment text
MaxTextLen == 2
\* most entries of filters.keywords
MaxKeywords == 1
\* most entries of filters.regexes
MaxRegexes == 2

TextChars == {"a", "A", "b"}

\* the strings over chars of at most n characters
StringsUpTo(chars, n) == UNION { [1..k -> chars] : k \in 0..n }

\* the lists over elems of at most n entries
ListsUpTo(elems, n) == UNION { [1..k -> elems] : k \in 0..n }

Texts == StringsUpTo(TextChars, MaxTextLen)
Keywords == {<<"a">>, <<"A", "b">>, <<"b", "b">>}
Authors == {<<"u">>, <<"v">>}
\* "[" is an unclosed character class; "." matches any character
Patterns == {<<"[">>, <<"b">>, <<"a", ".">>}
Scores == {-1, 0, 1}
MinScores == {0, 1}
Messages == {<<>>, <<"x">>}

\* the calls of apply_filter with at most k keywords and r regexes
FilterCalls(k, r) ==
    [author : Authors, text : Texts, upvotes : Scores,
     filtered_keywords : ListsUpTo(Keywords, k),
     filtered_authors : ListsUpTo({<<"u">>}, 1),
     min_upvotes : MinScores,
     filtered_regexes : ListsUpTo(Patterns, r),
     filtered_message : Messages]

InitFilter ==
    /\ pc = "call"
    /\ filter_in \in FilterCalls(MaxKeywords, MaxRegexes)
    /\ filter_out = Unused
    /\ reply_obj = Unused
    /\ reply_depth_max = 0
    /\ replies_extras = EmptyMap
    /\ lines = <<>>
    /\ FilesUnused
    /\ DocUnused
    /\ FmtUnused

\* one call of apply_filter
ApplyFilter ==
    /\ pc = "call"
    /\ filter_out' = apply_filter(filter_in.author, filter_in.text, filter_in.upvotes,
                                  filter_in.filtered_keywords, filter_in.filtered_authors,
                                  filter_in.min_upvotes, filter_in.filtered_regexes,
                                  filter_in.filtered_message)
    /\ pc' = "returned"
    /\ UNCHANGED filter_in
    /\ UNCHANGED replyVars
    /\ UNCHANGED fileVars
    /\ UNCHANGED <<docVars, fmtVars>>

NextFilter == ApplyFilter

SpecFilter == InitFilter /\ [][NextFilter]_vars

---------------------------------------------------------------------------
(* The four rules of the filter, stated on the arguments of the call *)

KeywordRule ==
    \E i \in 1..Len(filter_in.filtered_keywords) :
        contains(to_lowercase(filter_in.text), to_lowercase(filter_in.filtered_keywords[i]))

AuthorRule ==
    \E i \in 1..Len(filter_in.filtered_authors) :
        filter_in.filtered_authors[i] = filter_in.author

ScoreRule == filter_in.upvotes < filter_in.min_upvotes

RegexRule ==
    \E i \in 1..Len(filter_in.filtered_regexes) :
        /\ RegexCompiles(filter_in.filtered_regexes[i])
        /\ is_match(filter_in.filtered_regexes[i], filter_in.text)

HasInvalidRegex ==
    \E i \in 1..Len(filter_in.filtered_regexes) : ~RegexCompiles(filter_in.filtered_regexes[i])

(* C6: when at least one of the four rules triggers, whichever and however *)
(* many, apply_filter returns the replacement text.                        *)
C6_AnyRuleReplaces ==
    (pc = "returned" /\ (KeywordRule \/ AuthorRule \/ ScoreRule \/ RegexRule)) =>
        filter_out = filter_in.filtered_message

\* a keyword that differs from the text in case and the score rule both match,
\* and the empty replacement text is returned
C6_Witness ==
    /\ pc = "returned"
    /\ KeywordRule /\ ScoreRule
    /\ \A i \in 1..Len(filter_in.filtered_keywords) :
           ~contains(filter_in.text, filter_in.filtered_keywords[i])
    /\ filter_in.filtered_message = <<>>
    /\ filter_out = <<>>

(* C7: when no keyword matches, the author is not denied, the score is at  *)
(* least the minimum and no valid regex matches, the body is returned      *)
(* unchanged.                                                              *)
C7_PassThrough ==
    (pc = "returned" /\ ~KeywordRule /\ ~AuthorRule /\ ~ScoreRule /\ ~RegexRule) =>
        filter_out = filter_in.text

\* the score equals the minimum, every list is non-empty, and the body passes
C7_Witness ==
    /\ pc = "returned"
    /\ filter_in.upvotes = filter_in.min_upvotes
    /\ filter_in.filtered_keywords # <<>>
    /\ filter_in.filtered_authors # <<>>
    /\ filter_in.filtered_regexes # <<>>
    /\ filter_in.text # <<>>
    /\ filter_out = filter_in.text
    /\ filter_out # filter_in.filtered_message

IsValidPattern(rgx) == RegexCompiles(rgx)

(* C8: a pattern that fails to compile never triggers the filter and never *)
(* makes the call fail: the call returns the body or the replacement text, *)
(* and it returns what it returns with the invalid patterns removed from   *)
(* the list.                                                               *)
C8_InvalidRegexSkipped ==
    pc = "returned" =>
        /\ filter_out \in {filter_in.text, filter_in.filtered_message}
        /\ filter_out = apply_filter(filter_in.author, filter_in.text, filter_in.upvotes,
                                     filter_in.filtered_keywords, filter_in.filtered_authors,
                                     filter_in.min_upvotes,
                                     SelectSeq(filter_in.filtered_regexes, IsValidPattern),
                                     filter_in.filtered_message)
        /\ (HasInvalidRegex /\ ~KeywordRule /\ ~AuthorRule /\ ~ScoreRule
                /\ \A i \in 1..Len(filter_in.filtered_regexes) :
                       RegexCompiles(filter_in.filtered_regexes[i]) =>
                           ~is_match(filter_in.filtered_regexes[i], filter_in.text))
              => filter_out = filter_in.text

\* an invalid pattern comes first, a valid one after it is the only rule that
\* matches, and the replacement text is returned
C8_Witness ==
    /\ pc = "returned"
    /\ Len(filter_in.filtered_regexes) >= 2
    /\ ~RegexCompiles(filter_in.filtered_regexes[1])
    /\ RegexRule /\ ~KeywordRule /\ ~AuthorRule /\ ~ScoreRule
    /\ filter_out = filter_in.filtered_message
    /\ filter_out # filter_in.text

---------------------------------------------------------------------------
(* The path resolver, reddit_utils/file_ops.rs, and write_to_file, main.rs. *)
(* A path is its directory (a list of components) and its file name.  The   *)
(* file system accepts every operation.                                     *)

\* most posts processed in one run
MaxRuns == 3

BaseDir == <<"base">>
Urls == {<<>>, <<"/">>, <<"p">>, <<"s", "/", "p", "/">>, <<"p", ".", "q">>}
Subreddits == {<<"r", "/", "x">>, <<>>}
ValidTimestamp == "2023-01-01 12:00:00"
PostTimestamps == {"", ValidTimestamp}
FileFormats == {<<"m", "d">>, <<"H", "T", "M", "L">>}
\* what chrono::Utc::now() gives: the date and the Unix time
Clock == [date |-> "2026-11-04", unix |-> "1793750400"]

\* str::trim_end_matches('/')
RECURSIVE TrimEndSlashes(_)
TrimEndSlashes(s) ==
    IF s # <<>> /\ s[Len(s)] = "/" THEN TrimEndSlashes(SubSeq(s, 1, Len(s) - 1)) ELSE s

\* str::split('/'): the pieces between the separators, at least one piece
RECURSIVE SplitSlash(_)
SplitSlash(s) ==
    IF \A i \in 1..Len(s) : s[i] # "/" THEN <<s>>
    ELSE LET i == CHOOSE k \in 1..Len(s) : s[k] = "/" /\ \A j \in 1..(k - 1) : s[j] # "/"
         IN <<SubSeq(s, 1, i - 1)>> \o SplitSlash(SubSeq(s, i + 1, Len(s)))

\* url.trim_end_matches('/').split('/').last().unwrap_or(placeholder)
name_candidate(url, now) ==
    LET pieces == SplitSlash(TrimEndSlashes(url))
    IN IF pieces = <<>> THEN <<"reddit_no_name_", now.unix>> ELSE pieces[Len(pieces)]

\* str::starts_with
starts_with(s, prefix) == Len(s) >= Len(prefix) /\ SubSeq(s, 1, Len(prefix)) = prefix

\* NaiveDateTime::parse_from_str(ts, "%Y-%m-%d %H:%M:%S") and format("%Y-%m-%d")
ParsesAsDateTime(ts) == ts = ValidTimestamp
FormatDate(ts) == "2023-01-01"

\* Path::file_stem of a file name: the part before the last '.', the whole
\* name when it has no '.' or only a leading one
LastDot(name) ==
    IF \E i \in 1..Len(name) : name[i] = "."
    THEN CHOOSE i \in 1..Len(name) : name[i] = "." /\ \A j \in (i + 1)..Len(name) : name[j] # "."
    ELSE 0

file_stem(name) ==
    IF name = <<".", ".">> THEN name
    ELSE IF LastDot(name) <= 1 THEN name
    ELSE SubSeq(name, 1, LastDot(name) - 1)

\* Path::with_extension(""): the file name cut down to its stem
with_extension_empty(path) == [dir |-> path.dir, name |-> file_stem(path.name)]

\* the directories create_dir_all makes for a directory
DirsUpTo(dir) == { SubSeq(dir, 1, n) : n \in 1..Len(dir) }

(* generate_filename that ignores overwrite and always looks for a free name *)
generate_filename_always_suffix(base_dir, url, subreddit, use_timestamped_dirs, post_timestamp, file_format, overwrite, existing, now) ==
    LET name == name_candidate(url, now)
        sub == IF starts_with(subreddit, <<"r", "/">>)
               THEN SubSeq(subreddit, 3, Len(subreddit)) ELSE subreddit
        dir1 == IF sub # <<>> THEN <<base_dir, sub>> ELSE <<base_dir>>
        subdir == IF use_timestamped_dirs /\ post_timestamp # ""
                  THEN Append(dir1, <<IF ParsesAsDateTime(post_timestamp)
                                      THEN FormatDate(post_timestamp) ELSE now.date>>)
                  ELSE dir1
        ext == IF to_lowercase(file_format) = <<"h", "t", "m", "l">>
               THEN <<"h", "t", "m", "l">> ELSE <<"m", "d">>
        file_path == [dir |-> subdir, name |-> name \o <<".">> \o ext]
        base_no_ext == with_extension_empty(file_path)
        RECURSIVE Probe(_, _)
        Probe(suffix, seen) ==
            LET cand == [dir |-> base_no_ext.dir,
                         name |-> file_stem(base_no_ext.name) \o <<"_">>
                                  \o ToDecimal(suffix) \o <<".">> \o ext]
            IN IF cand \notin existing
               THEN [path |-> cand, probed |-> Append(seen, cand), subdir |-> subdir]
               ELSE Probe(suffix + 1, Append(seen, cand))
    IN IF file_path \in existing
       THEN Probe(1, <<file_path>>)
       ELSE [path |-> file_path, probed |-> <<file_path>>, subdir |-> subdir]

(* generate_filename that compares the format with "html" as written *)
generate_filename_case_sensitive(base_dir, url, subreddit, use_timestamped_dirs, post_timestamp, file_format, overwrite, existing, now) ==
    LET name == name_candidate(url, now)
        sub == IF starts_with(subreddit, <<"r", "/">>)
               THEN SubSeq(subreddit, 3, Len(subreddit)) ELSE subreddit
        dir1 == IF sub # <<>> THEN <<base_dir, sub>> ELSE <<base_dir>>
        subdir == IF use_timestamped_dirs /\ post_timestamp # ""
                  THEN Append(dir1, <<IF ParsesAsDateTime(post_timestamp)
                                      THEN FormatDate(post_timestamp) ELSE now.date>>)
                  ELSE dir1
        ext == IF file_format = <<"h", "t", "m", "l">>
               THEN <<"h", "t", "m", "l">> ELSE <<"m", "d">>
        file_path == [dir |-> subdir, name |-> name \o <<".">> \o ext]
        base_no_ext == with_extension_empty(file_path)
        RECURSIVE Probe(_, _)
        Probe(suffix, seen) ==
            LET cand == [dir |-> base_no_ext.dir,
                         name |-> file_stem(base_no_ext.name) \o <<"_">>
                                  \o ToDecimal(suffix) \o <<".">> \o ext]
            IN IF cand \notin existing
               THEN [path |-> cand, probed |-> Append(seen, cand), subdir |-> subdir]
               ELSE Probe(suffix + 1, Append(seen, cand))
    IN IF file_path \in existing
       THEN IF overwrite
            THEN [path |-> file_path, probed |-> <<file_path>>, subdir |-> subdir]
            ELSE Probe(1, <<file_path>>)
       ELSE [path |-> file_path, probed |-> <<file_path>>, subdir |-> subdir]

(* generate_filename: the name from the url, the directory, the extension, *)
(* then the collision loop.  existing is the set of paths that exist; the  *)
(* result holds the path, the paths tested with exists() and the directory *)
(* ensure_dir_exists was called for.                                       *)
generate_filename(base_dir, url, subreddit, use_timestamped_dirs, post_timestamp, file_format, overwrite, existing, now) ==
    LET name == name_candidate(url, now)
        sub == IF starts_with(subreddit, <<"r", "/">>)
               THEN SubSeq(subreddit, 3, Len(subreddit)) ELSE subreddit
        dir1 == IF sub # <<>> THEN <<base_dir, sub>> ELSE <<base_dir>>
        subdir == IF use_timestamped_dirs /\ post_timestamp # ""
                  THEN Append(dir1, <<IF ParsesAsDateTime(post_timestamp)
                                      THEN FormatDate(post_timestamp) ELSE now.date>>)
                  ELSE dir1
        ext == IF to_lowercase(file_format) = <<"h", "t", "m", "l">>
               THEN <<"h", "t", "m", "l">> ELSE <<"m", "d">>
        file_path == [dir |-> subdir, name |-> name \o <<".">> \o ext]
        base_no_ext == with_extension_empty(file_path)
        RECURSIVE Probe(_, _)
        Probe(suffix, seen) ==
            LET cand == [dir |-> base_no_ext.dir,
                         name |-> file_stem(base_no_ext.name) \o <<"_">>
                                  \o ToDecimal(suffix) \o <<".">> \o ext]
            IN IF cand \notin existing
               THEN [path |-> cand, probed |-> Append(seen, cand), subdir |-> subdir]
               ELSE Probe(suffix + 1, Append(seen, cand))
    IN IF file_path \in existing
       THEN IF overwrite
            THEN [path |-> file_path, probed |-> <<file_path>>, subdir |-> subdir]
            ELSE Probe(1, <<file_path>>)
       ELSE [path |-> file_path, probed |-> <<file_path>>, subdir |-> subdir]

InitFiles ==
    /\ pc = "resolve"
    /\ settings \in [overwrite_existing_file : BOOLEAN,
                     file_format : FileFormats,
                     use_timestamped_directories : BOOLEAN]
    /\ files = EmptyMap
    /\ dirs = {}
    /\ job = Unused
    /\ target_path = Unused
    /\ probed = <<>>
    /\ resolved = <<>>
    /\ reply_obj = Unused
    /\ reply_depth_max = 0
    /\ replies_extras = EmptyMap
    /\ lines = <<>>
    /\ filter_in = Unused
    /\ filter_out = Unused
    /\ DocUnused
    /\ FmtUnused

\* generate_target_path for the next post of the run
GenerateFilename ==
    /\ pc = "resolve"
    /\ Len(resolved) < MaxRuns
    /\ \E url \in Urls, subreddit \in Subreddits, timestamp \in PostTimestamps :
        LET r == generate_filename(BaseDir, url, subreddit,
                                   settings.use_timestamped_directories, timestamp,
                                   settings.file_format, settings.overwrite_existing_file,
                                   DOMAIN files, Clock)
        IN /\ job' = [url |-> url, subreddit |-> subreddit, timestamp |-> timestamp]
           /\ target_path' = r.path
           /\ probed' = r.probed
           /\ dirs' = dirs \cup DirsUpTo(r.subdir)
           /\ resolved' = Append(resolved, r.path)
    /\ pc' = "write"
    /\ UNCHANGED <<settings, files>>
    /\ UNCHANGED replyVars
    /\ UNCHANGED filterVars
    /\ UNCHANGED <<docVars, fmtVars>>

\* write_to_file: create the parent directories, then create or replace the file
WriteToFile ==
    /\ pc = "write"
    /\ dirs' = dirs \cup DirsUpTo(target_path.dir)
    /\ files' = (target_path :> Len(resolved)) @@ files
    /\ pc' = "resolve"
    /\ UNCHANGED <<settings, job, target_path, probed, resolved>>
    /\ UNCHANGED replyVars
    /\ UNCHANGED filterVars
    /\ UNCHANGED <<docVars, fmtVars>>

NextFiles == GenerateFilename \/ WriteToFile

SpecFiles == InitFiles /\ [][NextFiles]_vars

---------------------------------------------------------------------------
(* Vocabulary of the properties of the path resolver *)

\* the extension of the configured format
ExtOf(format) ==
    IF format \in {<<"h", "t", "m", "l">>, <<"H", "T", "M", "L">>}
    THEN <<"h", "t", "m", "l">> ELSE <<"m", "d">>

\* the k-th name of the sequence name.ext, name_1.ext, name_2.ext, ... for
\* the candidate of the post being processed, in the directory resolved for it
NumberedPath(k) ==
    LET name == name_candidate(job.url, Clock)
        ext == ExtOf(settings.file_format)
    IN [dir |-> target_path.dir,
        name |-> IF k = 0 THEN name \o <<".">> \o ext
                 ELSE name \o <<"_">> \o ToDecimal(k) \o <<".">> \o ext]

(* C9: with overwrite off, in a run that writes each resolved path before  *)
(* the next resolution, generate_filename returns the first of name.ext,   *)
(* name_1.ext, name_2.ext, ... that does not exist; the path returned does *)
(* not exist and the paths returned are pairwise distinct.  Stated for the *)
(* urls whose final segment is not empty.                                  *)
C9_FirstFreeNumberedName ==
    (pc = "write" /\ ~settings.overwrite_existing_file
                  /\ name_candidate(job.url, Clock) # <<>>) =>
        /\ \E k \in 0..MaxRuns :
              /\ target_path = NumberedPath(k)
              /\ \A j \in 0..(k - 1) : NumberedPath(j) \in DOMAIN files
        /\ target_path \notin DOMAIN files
        /\ \A i, j \in 1..Len(resolved) : i # j => resolved[i] # resolved[j]

(* C10: with overwrite on, generate_filename returns the candidate path    *)
(* without a suffix, whether or not a file exists there, and tests the     *)
(* existence of no other path.                                             *)
C10_OverwriteKeepsCandidate ==
    (pc = "write" /\ settings.overwrite_existing_file) =>
        /\ target_path = NumberedPath(0)
        /\ \A i \in 1..Len(probed) : probed[i] = NumberedPath(0)

\* overwrite is on and the path returned is that of a file already written
C10_Witness ==
    /\ pc = "write"
    /\ settings.overwrite_existing_file
    /\ target_path \in DOMAIN files
    /\ target_path = NumberedPath(0)

(* C11: when the url has no non-empty path segment once its trailing       *)
(* slashes are trimmed (the empty url, a url made of slashes), the base    *)
(* file name is the placeholder reddit_no_name_<unix time>, never empty.   *)
C11_PlaceholderForEmptyUrl ==
    (pc = "write" /\ TrimEndSlashes(job.url) = <<>>) =>
        /\ target_path.name # <<".">> \o ExtOf(settings.file_format)
        /\ starts_with(target_path.name, <<"reddit_no_name_", Clock.unix>>)

---------------------------------------------------------------------------
(* Two invocations of the resolve-then-write sequence of process_single_url *)
(* against the same directory.  Each existence test of generate_filename    *)
(* and each write is one step on the shared file system.                    *)

\* most posts one invocation processes
MaxPosts == 2

Procs == {1, 2}
RaceUrls == {<<"p">>, <<"q">>}
\* the directory as the invocations find it: empty, or holding p.md
RaceDisks ==
    {EmptyMap, [dir |-> <<BaseDir>>, name |-> <<"p", ".", "m", "d">>] :> <<0, 0>>}

Range(seq) == { seq[i] : i \in 1..Len(seq) }

(* fs::write that fails on a path that exists instead of replacing the file *)
fs_write_create_new(disk, path, content) ==
    IF path \in DOMAIN disk THEN disk ELSE (path :> content) @@ disk

(* fs::write: creates the file or replaces its content *)
fs_write(disk, path, content) == (path :> content) @@ disk

\* the posts process p has written
WrittenBy(p) == Cardinality({ i \in 1..Len(writes) : writes[i].proc = p })

InitRace ==
    /\ pc = [p \in Procs |-> "start"]
    /\ settings \in [overwrite_existing_file : BOOLEAN,
                     file_format : {<<"m", "d">>},
                     use_timestamped_directories : {FALSE}]
    /\ files \in RaceDisks
    /\ dirs = {<<BaseDir>>}
    /\ job = [p \in Procs |-> Unused]
    /\ target_path = [p \in Procs |-> Unused]
    /\ probed = [p \in Procs |-> <<>>]
    /\ resolved = <<>>
    /\ writes = <<>>
    /\ post_data = Unused
    /\ replies_data = <<>>
    /\ env = Unused
    /\ result = Unused
    /\ reply_obj = Unused
    /\ reply_depth_max = 0
    /\ replies_extras = EmptyMap
    /\ lines = <<>>
    /\ filter_in = Unused
    /\ filter_out = Unused
    /\ FmtUnused

\* process_single_url takes the next url of the invocation
RaceStart(p) ==
    /\ pc[p] = "start"
    /\ WrittenBy(p) < MaxPosts
    /\ \E url \in RaceUrls :
          job' = [job EXCEPT ![p] = [url |-> url, subreddit |-> <<>>, timestamp |-> ""]]
    /\ probed' = [probed EXCEPT ![p] = <<>>]
    /\ pc' = [pc EXCEPT ![p] = "resolve"]
    /\ UNCHANGED <<settings, files, dirs, target_path, resolved, writes>>
    /\ UNCHANGED <<post_data, replies_data, env, result>>
    /\ UNCHANGED <<replyVars, filterVars, fmtVars>>

\* one file_path.exists() of generate_filename: the path tested is the one
\* the function reaches when the paths it tested before exist
RaceExists(p) ==
    /\ pc[p] = "resolve"
    /\ LET cand == generate_filename(BaseDir, job[p].url, job[p].subreddit,
                                     settings.use_timestamped_directories,
                                     job[p].timestamp, settings.file_format,
                                     FALSE, Range(probed[p]), Clock).path
       IN /\ probed' = [probed EXCEPT ![p] = Append(@, cand)]
          /\ dirs' = dirs \cup DirsUpTo(cand.dir)
          /\ IF cand \in DOMAIN files /\ ~settings.overwrite_existing_file
             THEN UNCHANGED <<pc, target_path, resolved>>
             ELSE /\ target_path' = [target_path EXCEPT ![p] = cand]
                  /\ resolved' = Append(resolved, cand)
                  /\ pc' = [pc EXCEPT ![p] = "write"]
    /\ UNCHANGED <<settings, files, job, writes>>
    /\ UNCHANGED <<post_data, replies_data, env, result>>
    /\ UNCHANGED <<replyVars, filterVars, fmtVars>>

\* write_to_file of the document of the post
RaceWrite(p) ==
    /\ pc[p] = "write"
    /\ LET doc == <<p, WrittenBy(p) + 1>> IN
          /\ files' = fs_write(files, target_path[p], doc)
          /\ writes' = Append(writes, [proc |-> p, path |-> target_path[p], doc |-> doc])
    /\ dirs' = dirs \cup DirsUpTo(target_path[p].dir)
    /\ pc' = [pc EXCEPT ![p] = "start"]
    /\ UNCHANGED <<settings, job, target_path, probed, resolved>>
    /\ UNCHANGED <<post_data, replies_data, env, result>>
    /\ UNCHANGED <<replyVars, filterVars, fmtVars>>

NextRace == \E p \in Procs : RaceStart(p) \/ RaceExists(p) \/ RaceWrite(p)

SpecRace == InitRace /\ [][NextRace]_vars

\* the documents on disk
OnDisk == { files[x] : x \in DOMAIN files }

(* C12: with overwrite off, two invocations resolving the same candidate   *)
(* can both find the same path free and both return it; whenever that      *)
(* happens the later write replaces the earlier document.  Stated as: an   *)
(* invocation about to write to a path that now exists found it free       *)
(* before another invocation wrote there, and of two writes to one path    *)
(* only the later document is on disk.                                     *)
C12_RaceReplacesDocument ==
    ~settings.overwrite_existing_file =>
        /\ \A p \in Procs :
              (pc[p] = "write" /\ target_path[p] \in DOMAIN files) =>
                  \E i \in 1..Len(writes) :
                      writes[i].path = target_path[p] /\ writes[i].proc # p
        /\ \A i, j \in 1..Len(writes) :
              (i < j /\ writes[i].path = writes[j].path) =>
                  /\ writes[i].doc \notin OnDisk
                  /\ (\A k \in (j + 1)..Len(writes) : writes[k].path # writes[j].path)
                        => files[writes[j].path] = writes[j].doc

\* both invocations found the same suffixed name free, both wrote, and the
\* document of the first is gone
C12_Witness ==
    /\ ~settings.overwrite_existing_file
    /\ Len(writes) = 2
    /\ writes[1].proc # writes[2].proc
    /\ writes[1].path = writes[2].path
    /\ writes[1].path.name = <<"p", "_", "1", ".", "m", "d">>
    /\ job[1].url = job[2].url
    /\ files[writes[2].path] = writes[2].doc
    /\ writes[1].doc \notin OnDisk

---------------------------------------------------------------------------
(* The reply processor over a listing of top-level comments,               *)
(* post_renderer/reply_processor.rs.  The HashMap of each top-level        *)
(* comment is iterated in any order, so an operator that renders gives the *)
(* set of fragment lists the run can produce.                              *)

\* most top-level comments of a listing
MaxTopLevel == 2

\* the comment with its place pos in the listing, and its replies with theirs
RECURSIVE Locate(_, _)
Locate(node, pos) ==
    [k \in DOMAIN node \cup {"pos"} |->
        IF k = "pos" THEN pos
        ELSE IF k = "children"
        THEN [i \in 1..Len(node.children) |-> Locate(node.children[i], Append(pos, i))]
        ELSE node[k]]

\* the records that hold the key with one of the values, or do not hold it
Opt(key, values) == {EmptyMap} \cup { key :> v : v \in values }

\* replies of a top-level comment: a deleted comment that has a reply
DeletedThread ==
    <<[id |-> <<"a">>, depth |-> 1, body |-> DeletedBody, author |-> <<"[deleted]">>,
       children |-> <<[id |-> <<"b">>, depth |-> 2, body |-> <<"h", "&gt;">>,
                       author |-> <<"u">>, ups |-> 1999]>>]>>

\* replies of a top-level comment: two comments with one id, the second deleted
TwinThread ==
    <<[id |-> <<"a">>, depth |-> 1, body |-> <<"h">>, author |-> <<"v">>, ups |-> 5],
      [id |-> <<"a">>, depth |-> 1, body |-> DeletedBody, author |-> <<"v">>]>>

\* replies of a top-level comment: a whitespace-only comment that has a
\* reply, an empty one, and comments at depth 0 and at the last index of the
\* palette and the one past it
EdgeThread ==
    <<[id |-> <<"e">>, depth |-> 1, body |-> <<" ">>, author |-> <<"v">>,
       children |-> <<[id |-> <<"f">>, depth |-> 2, body |-> <<"h">>, author |-> <<"v">>]>>],
      [id |-> <<"k">>, depth |-> 1, body |-> <<>>, author |-> <<"v">>],
      [id |-> <<"g">>, depth |-> 0, body |-> <<"h">>, author |-> <<"v">>],
      [id |-> <<"i">>, depth |-> 8, body |-> <<"h">>, author |-> <<"u">>],
      [id |-> <<"j">>, depth |-> 9, body |-> <<"h">>, author |-> <<"v">>]>>

TopAuthors == {<<>>, <<"AutoModerator">>, <<"u">>}

\* body and replies of a top-level comment
TopContents ==
    { [children |-> DeletedThread],
      [body |-> DeletedBody, children |-> DeletedThread],
      [body |-> <<"h">>, children |-> TwinThread],
      [body |-> <<"h">>] }

TopComments ==
    { a @@ c : a \in Opt("author", TopAuthors), c \in TopContents }
    \cup { a @@ [body |-> <<"h">>, children |-> EdgeThread] : a \in Opt("author", {<<"u">>}) }

\* the listings of at most n top-level comments
Listings(n) ==
    UNION { { [i \in 1..k |-> Locate(l[i], <<i>>)] : l \in [1..k -> TopComments] }
            : k \in 0..n }

\* a policy under which every rule of the filter triggers on every comment
StrictFilters ==
    [keywords |-> <<DeletedBody, <<"h">>>>,
     authors |-> <<<<"u">>, <<"v">>, <<"[deleted]">>, <<"AutoModerator">>>>,
     min_upvotes |-> 2000, regexes |-> <<<<".">>>>]

ThreadSettings ==
    { [show_upvotes |-> TRUE, show_timestamp |-> FALSE,
       reply_depth_color_indicators |-> (a \/ l \/ f # StrictFilters),
       enable_media_downloads |-> FALSE,
       show_auto_mod_comment |-> a, line_break_between_parent_replies |-> l,
       reply_depth_max |-> d, filters |-> f, filtered_message |-> <<"x">>] :
        a \in BOOLEAN, l \in BOOLEAN, d \in {-1, 1},
        f \in {[k \in {"keywords", "authors", "min_upvotes", "regexes"} |-> RenderFilters[k]],
               StrictFilters} }

\* the post the listing belongs to
ThreadPost == [author |-> <<"u">>]

Sum(f) ==
    LET RECURSIVE Upto(_)
        Upto(i) == IF i = 0 THEN 0 ELSE f[i] + Upto(i - 1)
    IN Upto(Len(f))

(* count_total_replies that counts the descendants only *)
count_total_replies_descendants(listing, conf) ==
    Sum([i \in 1..Len(listing) |->
            Cardinality(DOMAIN get_replies(listing[i], conf.reply_depth_max))])

(* count_total_replies that also counts the comments get_replies drops for *)
(* a blank body                                                            *)
count_total_replies_with_blank(listing, conf) ==
    LET RECURSIVE Visited(_)
        Visited(node) ==
            LET kids == Field(node, "children", <<>>)
                Within(c) == conf.reply_depth_max = -1
                             \/ Field(c, "depth", 0) <= conf.reply_depth_max
            IN Sum([i \in 1..Len(kids) |->
                      IF ~Within(kids[i]) THEN 0
                      ELSE IF Trim(Field(kids[i], "body", <<>>)) = <<>> THEN 1
                      ELSE Visited(kids[i])])
    IN Len(listing)
       + Sum([i \in 1..Len(listing) |->
                Cardinality(DOMAIN get_replies(listing[i], conf.reply_depth_max))
                + Visited(listing[i])])

\* count_total_replies: the length of the listing plus, for each top-level
\* comment, the length of the map get_replies returns
count_total_replies(listing, conf) ==
    LET RECURSIVE Loop(_, _)
        Loop(i, total_replies) ==
            IF i > Len(listing) THEN total_replies
            ELSE Loop(i + 1, total_replies
                      + Cardinality(DOMAIN get_replies(listing[i], conf.reply_depth_max)))
    IN Loop(1, Len(listing))

\* extract_reply_data
extract_reply_data(top_reply, conf) ==
    [author |-> Field(top_reply, "author", <<>>),
     upvotes |-> Field(top_reply, "ups", 0),
     timestamp |-> extract_reply_timestamp(Field(top_reply, "created_utc", 0), conf),
     reply |-> top_reply.pos]

\* add_reply_header: the header line of a top-level comment
add_reply_header(reply_data, colors, post_author, conf) ==
    <<[kind |-> "header", indent |-> 0, reply |-> reply_data.reply,
       color |-> IF conf.reply_depth_color_indicators
                 THEN (IF colors = <<>> THEN "" ELSE colors[1]) ELSE "",
       author |-> format_author_with_op_marker(reply_data.author, post_author),
       upvotes |-> format_upvotes(reply_data.upvotes, conf.show_upvotes),
       timestamp |-> format_timestamp(reply_data.timestamp, conf.show_timestamp)]>>

\* process_reply_body
process_reply_body(body, author, upvotes, conf) ==
    IF Trim(body) = <<>> THEN <<>>
    ELSE IF body = DeletedBody
    THEN <<[kind |-> "deleted", indent |-> 1, text |-> <<>>]>>
    ELSE <<[kind |-> "body", indent |-> 1, of |-> body,
            text |-> format_comment_body(
                        apply_filter(author, body, upvotes,
                                     conf.filters.keywords, conf.filters.authors,
                                     conf.filters.min_upvotes, conf.filters.regexes,
                                     conf.filtered_message))]>>

(* process_child_replies that renders the descendants beyond the depth limit too *)
process_child_replies_nolimit(top_reply, conf, colors, post_author) ==
    LET child_map == get_replies_nolimit(top_reply, conf.reply_depth_max)
    IN { RenderInOrder(child_map, order, 1, conf, colors, post_author) :
            order \in IterationOrders(child_map) }

\* process_child_replies: one process_child_reply per entry of the map, in
\* the map's iteration order
process_child_replies(top_reply, conf, colors, post_author) ==
    LET child_map == get_replies(top_reply, conf.reply_depth_max)
    IN { RenderInOrder(child_map, order, 1, conf, colors, post_author) :
            order \in IterationOrders(child_map) }

\* the separator pushed after a top-level comment
Separator(conf) ==
    IF conf.line_break_between_parent_replies THEN <<[kind |-> "rule"]>> ELSE <<>>

(* process_top_level_reply that pushes the separator for a skipped comment too *)
process_top_level_reply_separator(top_reply, conf, colors, post_author) ==
    IF "author" \notin DOMAIN top_reply THEN {Separator(conf)}
    ELSE LET author == top_reply.author IN
         IF author = <<>> \/ (author = <<"AutoModerator">> /\ ~conf.show_auto_mod_comment)
         THEN {Separator(conf)}
         ELSE LET reply_data == extract_reply_data(top_reply, conf)
                  body == Field(top_reply, "body", <<>>)
              IN { add_reply_header(reply_data, colors, post_author, conf)
                   \o process_reply_body(body, author, reply_data.upvotes, conf)
                   \o kids \o Separator(conf) :
                      kids \in process_child_replies(top_reply, conf, colors, post_author) }

\* process_top_level_reply: nothing for a comment without an author or by
\* AutoModerator when those are hidden; else header, body, descendants and
\* the separator
process_top_level_reply(top_reply, conf, colors, post_author) ==
    IF "author" \notin DOMAIN top_reply THEN {<<>>}
    ELSE LET author == top_reply.author IN
         IF author = <<>> \/ (author = <<"AutoModerator">> /\ ~conf.show_auto_mod_comment)
         THEN {<<>>}
         ELSE LET reply_data == extract_reply_data(top_reply, conf)
                  body == Field(top_reply, "body", <<>>)
              IN { add_reply_header(reply_data, colors, post_author, conf)
                   \o process_reply_body(body, author, reply_data.upvotes, conf)
                   \o kids \o Separator(conf) :
                      kids \in process_child_replies(top_reply, conf, colors, post_author) }

\* process_replies: the reply-count line, a rule, then the top-level comments
\* in the order of the listing
process_replies(listing, conf, colors, post_author) ==
    LET total_replies == count_total_replies(listing, conf)
        RECURSIVE Tops(_)
        Tops(i) ==
            IF i > Len(listing) THEN {<<>>}
            ELSE { a \o b : a \in process_top_level_reply(listing[i], conf, colors, post_author),
                            b \in Tops(i + 1) }
    IN { <<[kind |-> "count", total |-> total_replies], [kind |-> "rule"]>> \o t :
            t \in Tops(1) }

InitThread ==
    /\ pc = "replies"
    /\ settings \in ThreadSettings
    /\ post_data = ThreadPost
    /\ replies_data \in Listings(MaxTopLevel)
    /\ lines = <<>>
    /\ env = Unused
    /\ result = Unused
    /\ writes = <<>>
    /\ files = Unused
    /\ dirs = {}
    /\ job = Unused
    /\ target_path = Unused
    /\ probed = <<>>
    /\ resolved = <<>>
    /\ reply_obj = Unused
    /\ reply_depth_max = 0
    /\ replies_extras = EmptyMap
    /\ filter_in = Unused
    /\ filter_out = Unused
    /\ FmtUnused

\* one call of process_replies
ProcessReplies ==
    /\ pc = "replies"
    /\ \E doc \in process_replies(replies_data, settings, Colors,
                                  Field(post_data, "author", <<"[unknown]">>)) :
          lines' = lines \o doc
    /\ pc' = "done"
    /\ UNCHANGED <<settings, post_data, replies_data, env, result, writes>>
    /\ UNCHANGED <<files, dirs, job, target_path, probed, resolved>>
    /\ UNCHANGED <<reply_obj, reply_depth_max, replies_extras>>
    /\ UNCHANGED <<filterVars, fmtVars>>

NextThread == ProcessReplies

SpecThread == InitThread /\ [][NextThread]_vars

---------------------------------------------------------------------------
(* Vocabulary of the properties of the reply processor *)

\* the top-level comment has no author, an empty one, or is by AutoModerator
\* while those comments are hidden
Skipped(c) ==
    \/ "author" \notin DOMAIN c
    \/ c.author = <<>>
    \/ (c.author = <<"AutoModerator">> /\ ~settings.show_auto_mod_comment)

\* the map of descendants of the top-level comment c under the configured limit
Flattened(c) == get_replies(c, settings.reply_depth_max)

\* lines holds the header of the comment at pos, followed by the placeholder
\* line one tab deeper
PlaceholderAfter(pos) ==
    \E i \in 1..(Len(lines) - 1) :
        /\ lines[i].kind = "header"
        /\ lines[i].reply = pos
        /\ lines[i + 1].kind = "deleted"
        /\ lines[i + 1].indent = lines[i].indent + 1

\* the fragments process_top_level_reply appends for a comment it renders
FragmentsOf(c) ==
    1 + (IF Trim(Field(c, "body", <<>>)) = <<>> THEN 0 ELSE 1)
      + 2 * Cardinality(DOMAIN Flattened(c))
      + (IF settings.line_break_between_parent_replies THEN 1 ELSE 0)

(* C13: every rendered comment whose body is exactly "[deleted]", a        *)
(* top-level comment that is not skipped for its author or a descendant    *)
(* the flattener returned, gets the placeholder line after its header, and *)
(* no body handed to apply_filter and the body formatter is the sentinel,  *)
(* whatever the filter policy.                                             *)
C13_DeletedRendersPlaceholder ==
    pc = "done" =>
        /\ \A i \in 1..Len(replies_data) :
              LET c == replies_data[i] IN
              ~Skipped(c) =>
                  /\ Field(c, "body", <<>>) = DeletedBody => PlaceholderAfter(c.pos)
                  /\ \A k \in DOMAIN Flattened(c) :
                        LET d == Flattened(c)[k].child_reply IN
                        Field(d, "body", <<>>) = DeletedBody => PlaceholderAfter(d.pos)
        /\ \A i \in 1..Len(lines) : lines[i].kind = "body" => lines[i].of # DeletedBody

\* under the policy whose every rule triggers, a top-level comment and a
\* descendant with the sentinel body both got the placeholder line
C13_Witness ==
    /\ pc = "done"
    /\ settings.filters = StrictFilters
    /\ \E i \in 1..Len(replies_data) :
          LET c == replies_data[i] IN
          /\ ~Skipped(c)
          /\ Field(c, "body", <<>>) = DeletedBody
          /\ PlaceholderAfter(c.pos)
          /\ \E k \in DOMAIN Flattened(c) :
                LET d == Flattened(c)[k].child_reply IN
                d.body = DeletedBody /\ PlaceholderAfter(d.pos)
    /\ \E i \in 1..Len(lines) : lines[i].kind = "body" /\ lines[i].text = <<"x">>

(* C14: the number in the reply-count line is the number of top-level      *)
(* comments of the listing plus the sum, over the top-level comments, of   *)
(* the length of the flattener's result under the configured depth limit.  *)
C14_ReplyCountLine ==
    pc = "done" =>
        /\ lines[1].kind = "count"
        /\ lines[1].total =
              Len(replies_data)
              + Sum([i \in 1..Len(replies_data) |->
                        Cardinality(DOMAIN Flattened(replies_data[i]))])

\* two top-level comments, one of them skipped, with descendants of which the
\* depth limit cuts one
C14_Witness ==
    /\ pc = "done"
    /\ Len(replies_data) = 2
    /\ settings.reply_depth_max = 1
    /\ Skipped(replies_data[1])
    /\ Field(replies_data[1], "children", <<>>) = Locate([children |-> DeletedThread], <<1>>).children
    /\ Field(replies_data[2], "children", <<>>) # <<>>
    /\ lines[1].total = 4

(* C20: a top-level comment whose author is missing or empty, or is        *)
(* AutoModerator while show_auto_mod_comment is false, appends nothing: no *)
(* header of it or of a descendant of it is in the document, and the       *)
(* document holds exactly the count line, the rule and the fragments of    *)
(* the comments that are not skipped.                                      *)
C20_SkippedAppendsNothing ==
    pc = "done" =>
        /\ \A i \in 1..Len(replies_data) :
              Skipped(replies_data[i]) =>
                  \A j \in 1..Len(lines) :
                      lines[j].kind = "header" => Head(lines[j].reply) # i
        /\ Len(lines) =
              2 + Sum([i \in 1..Len(replies_data) |->
                          IF Skipped(replies_data[i]) THEN 0
                          ELSE FragmentsOf(replies_data[i])])

\* an AutoModerator comment with replies is hidden and a comment without an
\* author is skipped, with separators on: the document is the two lines of
\* the count
C20_Witness ==
    /\ pc = "done"
    /\ settings.line_break_between_parent_replies
    /\ Len(replies_data) = 2
    /\ Field(replies_data[1], "author", <<>>) = <<"AutoModerator">>
    /\ Field(replies_data[1], "body", <<>>) # <<>>
    /\ DOMAIN Flattened(replies_data[1]) # {}
    /\ "author" \notin DOMAIN replies_data[2]
    /\ Len(lines) = 2

---------------------------------------------------------------------------
(* The calls of format_upvotes, post_renderer/formatting.rs *)

\* largest score of the range the calls are drawn from
MaxUpvotes == 2100

\* the scores: the range around zero and the thousands, and the ends of i32
UpvoteValues == (-2..MaxUpvotes) \cup {-2147483647, 999999, 1000000, 2147483647}

InitFormat ==
    /\ pc = "call"
    /\ fmt_in \in [upvotes : UpvoteValues, show_upvotes : BOOLEAN]
    /\ fmt_out = Unused
    /\ reply_obj = Unused
    /\ reply_depth_max = 0
    /\ replies_extras = EmptyMap
    /\ lines = <<>>
    /\ filter_in = Unused
    /\ filter_out = Unused
    /\ FilesUnused
    /\ DocUnused

\* one call of format_upvotes
FormatUpvotes ==
    /\ pc = "call"
    /\ fmt_out' = format_upvotes(fmt_in.upvotes, fmt_in.show_upvotes)
    /\ pc' = "returned"
    /\ UNCHANGED fmt_in
    /\ UNCHANGED <<replyVars, filterVars, fileVars, docVars>>

NextFormat == FormatUpvotes

SpecFormat == InitFormat /\ [][NextFormat]_vars

\* the number a string of decimal digits denotes
RECURSIVE FromDecimal(_)
FromDecimal(digits) ==
    IF digits = <<>> THEN 0
    ELSE 10 * FromDecimal(SubSeq(digits, 1, Len(digits) - 1))
         + (CHOOSE d \in 0..9 : ToString(d) = digits[Len(digits)])

(* C19: format_upvotes(n, show) is empty when show is false or n <= 0; for *)
(* n >= 1000 it is the arrow, the thousands of n truncated (the k with     *)
(* 0 <= n - 1000 k <= 999) and "k"; for 1 <= n <= 999 the arrow and n.     *)
C19_FormatUpvotes ==
    pc = "returned" =>
        LET n == fmt_in.upvotes
            show == fmt_in.show_upvotes
            digits == SubSeq(fmt_out, 3, Len(fmt_out) - 1)
        IN /\ (~show \/ n <= 0) => fmt_out = <<>>
           /\ (show /\ n >= 1000) =>
                 /\ Len(fmt_out) >= 4
                 /\ SubSeq(fmt_out, 1, 2) = <<"^", " ">>
                 /\ fmt_out[Len(fmt_out)] = "k"
                 /\ \A i \in 1..Len(digits) : digits[i] \in {ToString(d) : d \in 0..9}
                 /\ digits[1] # "0"
                 /\ n - 1000 * FromDecimal(digits) \in 0..999
           /\ (show /\ n >= 1 /\ n <= 999) =>
                 /\ SubSeq(fmt_out, 1, 2) = <<"^", " ">>
                 /\ \A i \in 3..Len(fmt_out) : fmt_out[i] \in {ToString(d) : d \in 0..9}
                 /\ fmt_out[3] # "0"
                 /\ FromDecimal(SubSeq(fmt_out, 3, Len(fmt_out))) = n

\* 1999 is shown as 1k
C19_Witness ==
    /\ pc = "returned"
    /\ fmt_in.show_upvotes
    /\ fmt_in.upvotes = 1999
    /\ fmt_out = <<"^", " ", "1", "k">>

---------------------------------------------------------------------------
(* The document builder, post_renderer/content_builder.rs, and the media   *)
(* handler, post_renderer/media_handler.rs.  The nested objects of the     *)
(* post record are read by one key each: oembed_html is                    *)
(* media.oembed.html, fallback_url is media.reddit_video.fallback_url,     *)
(* gallery_items is gallery_data.items.  The environment says whether      *)
(* ensure_dir_exists succeeds and what download_media returns per url:     *)
(* "ok" is Ok(true), "false" is Ok(false), "err" is Err.                   *)

\* most items of a gallery
MaxGallery == 2

\* Path::file_name of a url: its last non-empty segment
FileName(url) ==
    LET pieces == SplitSlash(TrimEndSlashes(url)) IN pieces[Len(pieces)]

\* download_media(..).unwrap_or(false)
download_media(url, environment) == environment.download[url] = "ok"

\* process_gallery_item: the image line when the item is an image with a url
\* and its download succeeded
process_gallery_item(meta, environment) ==
    IF Field(meta, "e", "") = "Image" /\ "u" \in DOMAIN meta
    THEN LET img_url == [i \in 1..Len(meta.u) |->
                            IF meta.u[i] = "&amp;" THEN "&" ELSE meta.u[i]]
         IN IF download_media(img_url, environment)
            THEN <<[kind |-> "gallery_image", file |-> FileName(img_url)]>>
            ELSE <<>>
    ELSE <<>>

\* process_gallery; a result is whether it returned Ok and what it pushed
process_gallery(post, environment) ==
    IF "gallery_items" \in DOMAIN post /\ "media_metadata" \in DOMAIN post
    THEN IF ~environment.dir_ok THEN [ok |-> FALSE, out |-> <<>>]
         ELSE LET gallery_items == post.gallery_items
                  media_metadata == post.media_metadata
                  RECURSIVE Items(_)
                  Items(i) ==
                      IF i > Len(gallery_items) THEN <<>>
                      ELSE (IF "media_id" \in DOMAIN gallery_items[i]
                               /\ gallery_items[i].media_id \in DOMAIN media_metadata
                            THEN process_gallery_item(
                                     media_metadata[gallery_items[i].media_id], environment)
                            ELSE <<>>) \o Items(i + 1)
              IN [ok |-> TRUE,
                  out |-> <<[kind |-> "gallery_heading"]>> \o Items(1)
                          \o <<[kind |-> "newline"]>>]
    ELSE [ok |-> TRUE, out |-> <<>>]

(* process_video that returns the error of a failed download *)
process_video_propagates(post, environment) ==
    IF "fallback_url" \in DOMAIN post
    THEN IF ~environment.dir_ok \/ environment.download[post.fallback_url] = "err"
         THEN [ok |-> FALSE, out |-> <<>>]
         ELSE IF download_media(post.fallback_url, environment)
         THEN [ok |-> TRUE, out |-> <<[kind |-> "video", file |-> FileName(post.fallback_url)]>>]
         ELSE [ok |-> TRUE, out |-> <<>>]
    ELSE [ok |-> TRUE, out |-> <<>>]

\* process_video
process_video(post, environment) ==
    IF "fallback_url" \in DOMAIN post
    THEN IF ~environment.dir_ok THEN [ok |-> FALSE, out |-> <<>>]
         ELSE IF download_media(post.fallback_url, environment)
         THEN [ok |-> TRUE, out |-> <<[kind |-> "video", file |-> FileName(post.fallback_url)]>>]
         ELSE [ok |-> TRUE, out |-> <<>>]
    ELSE [ok |-> TRUE, out |-> <<>>]

\* process_oembed; html_escape::decode_html_entities on the characters of the
\* model, of which "&lt;" is one
process_oembed(post) ==
    IF "oembed_html" \in DOMAIN post
    THEN <<[kind |-> "oembed",
            html |-> [i \in 1..Len(post.oembed_html) |->
                         IF post.oembed_html[i] = "&lt;" THEN "<" ELSE post.oembed_html[i]]]>>
    ELSE <<>>

\* process_single_image
process_single_image(post, environment) ==
    IF "url" \in DOMAIN post
    THEN IF ~environment.dir_ok THEN [ok |-> FALSE, out |-> <<>>]
         ELSE IF download_media(post.url, environment)
         THEN [ok |-> TRUE, out |-> <<[kind |-> "image", file |-> FileName(post.url)]>>]
         ELSE [ok |-> TRUE, out |-> <<>>]
    ELSE [ok |-> TRUE, out |-> <<>>]

(* process_media that tests the four forms independently of each other *)
process_media_independent(post, environment) ==
    LET g == IF Field(post, "is_gallery", FALSE) THEN process_gallery(post, environment)
             ELSE [ok |-> TRUE, out |-> <<>>]
        v == IF Field(post, "is_video", FALSE) THEN process_video(post, environment)
             ELSE [ok |-> TRUE, out |-> <<>>]
        o == process_oembed(post)
        s == IF Field(post, "post_hint", "") = "image"
             THEN process_single_image(post, environment)
             ELSE [ok |-> TRUE, out |-> <<>>]
    IN [ok |-> g.ok /\ v.ok /\ s.ok, out |-> g.out \o v.out \o o \o s.out]

\* process_media: the first of gallery, video, oEmbed and single image that
\* applies to the post
process_media(post, environment) ==
    IF Field(post, "is_gallery", FALSE) THEN process_gallery(post, environment)
    ELSE IF Field(post, "is_video", FALSE) THEN process_video(post, environment)
    ELSE IF "oembed_html" \in DOMAIN post THEN [ok |-> TRUE, out |-> process_oembed(post)]
    ELSE IF Field(post, "post_hint", "") = "image" THEN process_single_image(post, environment)
    ELSE [ok |-> TRUE, out |-> <<>>]

(* extract_post_info with the empty string as the default title *)
extract_post_info_empty_title(post) ==
    [title |-> Field(post, "title", <<>>),
     author |-> Field(post, "author", <<"[unknown]">>),
     subreddit |-> Field(post, "subreddit_name_prefixed", <<>>),
     upvotes |-> Field(post, "ups", 0),
     locked |-> Field(post, "locked", FALSE),
     selftext |-> Field(post, "selftext", <<>>),
     url |-> Field(post, "url", <<>>),
     timestamp |-> IF "created_utc" \in DOMAIN post
                   THEN FormatDateTime(post.created_utc) ELSE ""]

\* extract_post_info and extract_post_timestamp
extract_post_info(post) ==
    [title |-> Field(post, "title", <<"Untitled">>),
     author |-> Field(post, "author", <<"[unknown]">>),
     subreddit |-> Field(post, "subreddit_name_prefixed", <<>>),
     upvotes |-> Field(post, "ups", 0),
     locked |-> Field(post, "locked", FALSE),
     selftext |-> Field(post, "selftext", <<>>),
     url |-> Field(post, "url", <<>>),
     timestamp |-> IF "created_utc" \in DOMAIN post
                   THEN FormatDateTime(post.created_utc) ELSE ""]

\* build_post_header: the header line, the title line and the link line
build_post_header(post_info, conf) ==
    <<[kind |-> "post_header", subreddit |-> post_info.subreddit,
       author |-> post_info.author,
       upvotes |-> format_upvotes(post_info.upvotes, conf.show_upvotes),
       timestamp |-> format_timestamp(post_info.timestamp, conf.show_timestamp)],
      [kind |-> "title", title |-> post_info.title],
      [kind |-> "link", url |-> post_info.url]>>

\* escape_selftext on the characters of the model, then the quote prefix
\* after each newline
RECURSIVE escape_selftext(_)
escape_selftext(text) ==
    IF text = <<>> THEN <<>>
    ELSE LET c == Head(text) IN
         (CASE c = "&amp;" -> <<"&">>
            [] c = "&lt;" -> <<"<">>
            [] c = "&gt;" -> <<">">>
            [] c = "&quot;" -> <<"\"">>
            [] c = "\n" -> <<"\n", "> ">>
            [] OTHER -> <<c>>) \o escape_selftext(Tail(text))

\* build_post_content_body: the selftext block
build_post_content_body(post_info) ==
    IF post_info.selftext # <<>>
    THEN <<[kind |-> "selftext", text |-> <<"> ">> \o escape_selftext(post_info.selftext)]>>
    ELSE <<>>

\* build_lock_message: the lock notice
build_lock_message(post_info) ==
    IF post_info.locked THEN <<[kind |-> "lock", subreddit |-> post_info.subreddit]>> ELSE <<>>

\* build_post_content: the results the call can give; a result is whether it
\* returned Ok and the fragments pushed
build_post_content(post, listing, conf, colors, environment) ==
    LET post_info == extract_post_info(post)
        head == build_post_header(post_info, conf)
                \o build_post_content_body(post_info)
                \o build_lock_message(post_info)
        media == IF conf.enable_media_downloads THEN process_media(post, environment)
                 ELSE [ok |-> TRUE, out |-> <<>>]
    IN IF ~media.ok THEN {[ok |-> FALSE, out |-> head \o media.out]}
       ELSE { [ok |-> TRUE, out |-> head \o media.out \o replies \o <<[kind |-> "newline"]>>] :
                replies \in process_replies(listing, conf, colors, post_info.author) }

\* the record restricted to the keys of K
Restrict(f, K) == [k \in K |-> f[k]]

\* a post with every field the header and the body read
FullPost ==
    [title |-> <<"T">>, author |-> <<"u">>, subreddit_name_prefixed |-> <<"r/x">>,
     ups |-> 1532, locked |-> TRUE, selftext |-> <<"s", "\n", "&amp;">>,
     url |-> <<"i", "/", "p">>, created_utc |-> 1672574400]

\* the url of the i-th image of a gallery
GalleryUrl(i) == <<"g", "&amp;", "/", ToString(i)>>

\* the media fields of a post to which the four forms apply, with a gallery
\* of n images after an item without media_id, an item without metadata, an
\* animated item and an image item without url
MediaFields(n) ==
    [is_gallery |-> TRUE, is_video |-> TRUE, oembed_html |-> <<"&lt;", "e">>,
     post_hint |-> "image", fallback_url |-> <<"v", "/", "f">>,
     gallery_items |->
        <<[id |-> 0], [media_id |-> "z"], [media_id |-> "a"], [media_id |-> "n"]>>
        \o [i \in 1..n |-> [media_id |-> ToString(i)]],
     media_metadata |->
        [k \in {"a", "n"} \cup {ToString(i) : i \in 1..n} |->
            IF k = "a" THEN [e |-> "AnimatedImage", u |-> <<"g", "/", "a">>]
            ELSE IF k = "n" THEN [e |-> "Image"]
            ELSE [e |-> "Image",
                  u |-> GalleryUrl(CHOOSE i \in 1..n : ToString(i) = k)]]]

\* the urls download_media can be called with
MediaUrls(n) ==
    { <<"g", "&", "/", ToString(i)>> : i \in 1..n } \cup {<<"v", "/", "f">>, FullPost.url}

\* a top-level comment and a reply with every field the renderer reads
FullReply ==
    [id |-> <<"a">>, depth |-> 1, body |-> <<"h", "&#32;">>, author |-> <<"v">>, ups |-> 5,
     created_utc |-> 1672574400, children |-> <<>>]

FullComment ==
    [author |-> <<"u">>, body |-> <<"h">>, ups |-> 5, created_utc |-> 1672574400,
     children |-> <<FullReply>>]

\* the listings of one comment with one reply, each with any of its fields missing
SparseListings ==
    { <<Locate(IF "children" \in K
               THEN ("children" :> <<Restrict(FullReply, J)>>) @@ Restrict(FullComment, K)
               ELSE Restrict(FullComment, K), <<1>>)>> :
        K \in SUBSET DOMAIN FullComment, J \in SUBSET DOMAIN FullReply }

DocSettings(media, timestamps) ==
    [show_upvotes |-> TRUE, show_timestamp |-> timestamps,
     reply_depth_color_indicators |-> TRUE, enable_media_downloads |-> media,
     show_auto_mod_comment |-> TRUE, line_break_between_parent_replies |-> TRUE,
     reply_depth_max |-> -1,
     filters |-> [k \in {"keywords", "authors", "min_upvotes", "regexes"} |-> RenderFilters[k]],
     filtered_message |-> RenderFilters.filtered_message]

\* the environments: whether directories can be created, and the outcome of
\* the download of each url
Environments(n) == [dir_ok : BOOLEAN, download : [MediaUrls(n) -> {"ok", "false", "err"}]]

InitDoc ==
    /\ pc = "build"
    /\ \/ /\ \E K \in SUBSET DOMAIN FullPost : post_data = Restrict(FullPost, K)
          /\ replies_data \in {<<>>, <<Locate(FullComment, <<1>>)>>}
          /\ \E t \in BOOLEAN : settings = DocSettings(FALSE, t)
          /\ env \in {e \in Environments(0) : \A u \in DOMAIN e.download : e.download[u] = "err"}
       \/ /\ post_data = FullPost
          /\ replies_data \in SparseListings
          /\ \E t \in BOOLEAN : settings = DocSettings(FALSE, t)
          /\ env \in {e \in Environments(0) : \A u \in DOMAIN e.download : e.download[u] = "err"}
       \/ /\ \E K \in SUBSET DOMAIN MediaFields(MaxGallery) :
                post_data = Restrict(MediaFields(MaxGallery), K) @@ FullPost
          /\ replies_data = <<Locate(FullComment, <<1>>)>>
          /\ \E m \in BOOLEAN : settings = DocSettings(m, FALSE)
          /\ env \in Environments(MaxGallery)
    /\ lines = <<>>
    /\ result = Unused
    /\ writes = <<>>
    /\ files = Unused
    /\ dirs = {}
    /\ job = Unused
    /\ target_path = Unused
    /\ probed = <<>>
    /\ resolved = <<>>
    /\ reply_obj = Unused
    /\ reply_depth_max = 0
    /\ replies_extras = EmptyMap
    /\ filter_in = Unused
    /\ filter_out = Unused
    /\ FmtUnused

\* one call of build_post_content
BuildPostContent ==
    /\ pc = "build"
    /\ \E r \in build_post_content(post_data, replies_data, settings, Colors, env) :
          /\ lines' = r.out
          /\ result' = [ok |-> r.ok]
    /\ pc' = "built"
    /\ UNCHANGED <<settings, post_data, replies_data, env, writes>>
    /\ UNCHANGED <<files, dirs, job, target_path, probed, resolved>>
    /\ UNCHANGED <<reply_obj, reply_depth_max, replies_extras>>
    /\ UNCHANGED <<filterVars, fmtVars>>

NextDoc == BuildPostContent

SpecDoc == InitDoc /\ [][NextDoc]_vars

---------------------------------------------------------------------------
(* Vocabulary of the properties of the document builder *)

\* the defaults the spec documents for the fields of a post (a missing
\* created_utc gives no timestamp) and of a comment
PostDefaults ==
    [title |-> <<"Untitled">>, author |-> <<"[unknown]">>,
     subreddit_name_prefixed |-> <<>>, ups |-> 0, locked |-> FALSE,
     selftext |-> <<>>, url |-> <<>>]

CommentDefaults ==
    [id |-> <<>>, depth |-> 0, body |-> <<>>, author |-> <<>>, ups |-> 0,
     created_utc |-> 0, children |-> <<>>]

\* the comment with each missing field set to its default, and its replies so
RECURSIVE Completed(_)
Completed(c) ==
    [k \in DOMAIN c \cup DOMAIN CommentDefaults |->
        IF k = "children"
        THEN LET kids == Field(c, "children", <<>>)
             IN [i \in 1..Len(kids) |-> Completed(kids[i])]
        ELSE IF k \in DOMAIN c THEN c[k] ELSE CommentDefaults[k]]

\* the kinds of fragment of each form of the media block
FormOf(kind) ==
    CASE kind \in {"gallery_heading", "gallery_image"} -> "gallery"
      [] kind \in {"video", "oembed", "image"} -> kind
      [] OTHER -> "none"

\* the forms of media the document holds
Forms == { FormOf(lines[i].kind) : i \in 1..Len(lines) } \ {"none"}

\* the files of the media lines of the document, in order
MediaFiles ==
    LET IsFile(l) == l.kind \in {"gallery_image", "video", "image"}
        named == SelectSeq(lines, IsFile)
    IN [i \in 1..Len(named) |-> named[i].file]

\* the section of the document the i-th fragment belongs to: 1 header, 2 lock
\* notice, 3 selftext, 4 media, 5 reply count, 6 comments, 7 trailing line
Section(i) ==
    LET kind == lines[i].kind IN
    CASE kind \in {"post_header", "title", "link"} -> 1
      [] kind = "lock" -> 2
      [] kind = "selftext" -> 3
      [] FormOf(kind) # "none" -> 4
      [] kind = "newline" -> IF i = Len(lines) THEN 7 ELSE 4
      [] kind = "count" -> 5
      [] OTHER -> 6

(* C15: with media downloads disabled, whatever fields of the post, of the *)
(* top-level comment and of its reply are missing, build_post_content      *)
(* returns a document, and the document is one the call gives for the      *)
(* records with each missing field set to its default; a post without      *)
(* created_utc has no timestamp.                                           *)
C15_MissingFieldsDefaulted ==
    (pc = "built" /\ ~settings.enable_media_downloads) =>
        /\ result.ok
        /\ [ok |-> TRUE, out |-> lines]
              \in build_post_content(post_data @@ PostDefaults,
                                     [i \in 1..Len(replies_data) |-> Completed(replies_data[i])],
                                     settings, Colors, env)
        /\ "created_utc" \notin DOMAIN post_data => lines[1].timestamp = <<>>

\* a post without any field, with timestamps shown, gave a document with the
\* default title and author
C15_Witness ==
    /\ pc = "built"
    /\ ~settings.enable_media_downloads
    /\ settings.show_timestamp
    /\ DOMAIN post_data = {}
    /\ replies_data # <<>>
    /\ result.ok
    /\ lines[1].author = <<"[unknown]">>
    /\ lines[2].title = <<"Untitled">>
    /\ lines[Len(lines)].kind = "newline"

(* C16: when the directory can be created, a download that fails, with     *)
(* false or with an error, is not fatal: the document is returned with the *)
(* reply-count line and the trailing line, it names exactly the files      *)
(* whose download succeeded, and the images of a gallery that follow a     *)
(* failed one are still there.                                             *)
C16_FailedDownloadNotFatal ==
    (pc = "built" /\ settings.enable_media_downloads /\ env.dir_ok) =>
        /\ result.ok
        /\ \E i \in 1..Len(lines) : lines[i].kind = "count"
        /\ lines[Len(lines)].kind = "newline"
        /\ \A i \in 1..Len(MediaFiles) :
              \E u \in DOMAIN env.download :
                  FileName(u) = MediaFiles[i] /\ env.download[u] = "ok"
        /\ (Field(post_data, "is_gallery", FALSE)
              /\ {"gallery_items", "media_metadata"} \subseteq DOMAIN post_data) =>
                 MediaFiles =
                    LET Got(i) == env.download[<<"g", "&", "/", ToString(i)>>] = "ok"
                        RECURSIVE From(_)
                        From(i) == IF i > MaxGallery THEN <<>>
                                   ELSE (IF Got(i) THEN <<<<ToString(i)>>>> ELSE <<>>)
                                        \o From(i + 1)
                    IN From(1)

\* the download of the first image of a gallery ended with an error, that of
\* the second succeeded, and the document holds the second
C16_Witness ==
    /\ pc = "built"
    /\ settings.enable_media_downloads
    /\ env.dir_ok
    /\ env.download[<<"g", "&", "/", "1">>] = "err"
    /\ env.download[<<"g", "&", "/", "2">>] = "ok"
    /\ result.ok
    /\ MediaFiles = <<<<"2">>>>
    /\ lines[Len(lines)].kind = "newline"

(* C17: the media block holds at most one of the four forms, and none when *)
(* a form of higher precedence applies: no video for a gallery post, no    *)
(* oEmbed for a gallery or video post, no single image for a gallery,      *)
(* video or oEmbed post; the form that applies first is the one emitted.   *)
C17_OneFormByPrecedence ==
    (pc = "built" /\ settings.enable_media_downloads) =>
        LET gallery == Field(post_data, "is_gallery", FALSE)
            video == Field(post_data, "is_video", FALSE)
            oembed == "oembed_html" \in DOMAIN post_data
            image == Field(post_data, "post_hint", "") = "image"
        IN /\ Cardinality(Forms) <= 1
           /\ "video" \in Forms => ~gallery /\ video
           /\ "oembed" \in Forms => ~gallery /\ ~video /\ oembed
           /\ "image" \in Forms => ~gallery /\ ~video /\ ~oembed /\ image
           /\ "gallery" \in Forms => gallery
           /\ (~gallery /\ ~video /\ oembed) => Forms = {"oembed"}
           /\ (env.dir_ok /\ gallery
                 /\ {"gallery_items", "media_metadata"} \subseteq DOMAIN post_data)
                 => Forms = {"gallery"}

\* the four forms apply to the post and every download succeeds: the block
\* is the gallery
C17_Witness ==
    /\ pc = "built"
    /\ settings.enable_media_downloads
    /\ env.dir_ok
    /\ \A u \in DOMAIN env.download : env.download[u] = "ok"
    /\ DOMAIN MediaFields(MaxGallery) \subseteq DOMAIN post_data
    /\ Forms = {"gallery"}
    /\ Len(MediaFiles) = MaxGallery

(* C18: the sections of a document are in the order header, lock notice,   *)
(* selftext block, media block, reply-count line, comments, trailing line, *)
(* with the lock notice only for a locked post, the selftext block only    *)
(* for a non-empty selftext and the media block only when enabled.         *)
C18_SectionOrder ==
    (pc = "built" /\ result.ok) =>
        /\ \A i, j \in 1..Len(lines) : i < j => Section(i) <= Section(j)
        /\ (\E i \in 1..Len(lines) : lines[i].kind = "lock")
              <=> Field(post_data, "locked", FALSE)
        /\ (\E i \in 1..Len(lines) : lines[i].kind = "selftext")
              <=> Field(post_data, "selftext", <<>>) # <<>>
        /\ ~settings.enable_media_downloads => Forms = {}
        /\ Section(Len(lines)) = 7

---------------------------------------------------------------------------
(* Further properties of the flattener, under SpecReplies *)

\* the flattener's loop reaches n and inserts an entry for it
Kept(n) == Met(n) /\ ~OverLimit(n) /\ ~Blank(n)

KeptNodes == { n \in Descendants(reply_obj) : Kept(n) }

(* C21: when a met comment is skipped for its depth, each later sibling of *)
(* it with a depth within the limit and a non-blank body is still emitted: *)
(* the result holds an entry under its id, made from it or from a kept     *)
(* comment with the same id visited after it.                              *)
C21_SkipKeepsSiblings ==
    pc # "count" =>
        \A p \in Descendants(reply_obj) :
            (Met(p) /\ OverLimit(p)) =>
                LET siblings == ParentOf(p).children IN
                \A i \in 1..Len(siblings) :
                    LET s == siblings[i] IN
                    (p.pos[Len(p.pos)] < i /\ ~OverLimit(s) /\ ~Blank(s)) =>
                        /\ s.id \in DOMAIN replies_extras
                        /\ \/ InResult(replies_extras, s)
                           \/ \E e \in KeptNodes :
                                 /\ e.id = s.id
                                 /\ PreOrderBefore(s.pos, e.pos)
                                 /\ InResult(replies_extras, e)

\* a comment skipped for its depth is followed by a sibling within the limit,
\* and the result holds the entry made from that sibling
C21_Witness ==
    /\ pc # "count"
    /\ \E p \in Descendants(reply_obj) :
          /\ Met(p) /\ OverLimit(p) /\ ~Blank(p)
          /\ LET siblings == ParentOf(p).children IN
             \E i \in 1..Len(siblings) :
                /\ p.pos[Len(p.pos)] < i
                /\ ~OverLimit(siblings[i]) /\ ~Blank(siblings[i])
                /\ InResult(replies_extras, siblings[i])

(* C26: the result of get_replies holds one entry per id of a kept         *)
(* comment, keyed by that id, and the entry of an id is made from the kept *)
(* comment with that id that is last in depth-first pre-order; so the      *)
(* result never holds more entries than there are kept comments.           *)
C26_LastVisitedPerId ==
    pc # "count" =>
        /\ DOMAIN replies_extras = { n.id : n \in KeptNodes }
        /\ \A k \in DOMAIN replies_extras :
              LET e == replies_extras[k].child_reply IN
              /\ e.id = k
              /\ e \in KeptNodes
              /\ \A n \in KeptNodes :
                    (n.id = k /\ n.pos # e.pos) => PreOrderBefore(n.pos, e.pos)
        /\ Cardinality(DOMAIN replies_extras) <= Cardinality(KeptNodes)

\* three kept comments without an id, a parent and its child then a sibling:
\* the result is the single entry of the sibling
C26_Witness ==
    /\ pc # "count"
    /\ Cardinality(KeptNodes) = 3
    /\ \A n \in KeptNodes : n.id = <<>>
    /\ \E n \in KeptNodes : Len(n.pos) = 2
    /\ DOMAIN replies_extras = {<<>>}
    /\ replies_extras[<<>>].child_reply.pos = <<2>>

---------------------------------------------------------------------------
(* Further properties of the path resolver, under SpecFiles *)

\* the final segment of the url: what follows the last '/' once the trailing
\* slashes are removed
FinalSegment(url) ==
    LET t == TrimEndSlashes(url)
        first == CHOOSE i \in 1..(Len(t) + 1) :
                    /\ \A j \in i..Len(t) : t[j] # "/"
                    /\ i > 1 => t[i - 1] = "/"
    IN SubSeq(t, first, Len(t))

\* the path the layout rules give for the post being processed
LayoutPath ==
    LET sub == IF Len(job.subreddit) >= 2 /\ SubSeq(job.subreddit, 1, 2) = <<"r", "/">>
               THEN SubSeq(job.subreddit, 3, Len(job.subreddit)) ELSE job.subreddit
        bucket == IF settings.use_timestamped_directories /\ job.timestamp # ""
                  THEN <<<<"2023-01-01">>>> ELSE <<>>
    IN [dir |-> <<BaseDir>> \o (IF sub # <<>> THEN <<sub>> ELSE <<>>) \o bucket,
        name |-> FinalSegment(job.url) \o <<".">> \o ExtOf(settings.file_format)]

(* C22: when no file exists at the target, generate_filename returns the   *)
(* base directory, the subreddit without its leading "r/", the date        *)
(* directory exactly when date buckets are on and the post timestamp is    *)
(* not empty, then <final url segment>.<ext>, ext being html exactly when  *)
(* the format is "html" in any case, md otherwise.                         *)
C22_PathLayout ==
    (pc = "write" /\ LayoutPath \notin DOMAIN files) => target_path = LayoutPath

\* after an earlier post was written, a post of r/x with a timestamp, date
\* buckets on and the format HTML resolved to base/x/2023-01-01/p.html
C22_Witness ==
    /\ pc = "write"
    /\ files # EmptyMap
    /\ LayoutPath \notin DOMAIN files
    /\ job.url = <<"s", "/", "p", "/">>
    /\ settings.file_format = <<"H", "T", "M", "L">>
    /\ target_path = [dir |-> <<BaseDir, <<"x">>, <<"2023-01-01">>>>,
                      name |-> <<"p", ".", "h", "t", "m", "l">>]

(* C23: for every candidate name, one that holds a '.' included, the name  *)
(* returned when the candidate exists and overwrite is off is              *)
(* <candidate>_<k>.<ext> for some k >= 1: the whole candidate is kept in   *)
(* front of the numeric suffix.  Stated for the urls whose final segment   *)
(* is not empty.                                                           *)
C23_SuffixKeepsWholeCandidate ==
    (pc = "write" /\ ~settings.overwrite_existing_file /\ LayoutPath \in DOMAIN files
                  /\ FinalSegment(job.url) # <<>>) =>
        \E k \in 1..MaxRuns :
            target_path = [dir |-> LayoutPath.dir,
                           name |-> FinalSegment(job.url) \o <<"_">> \o ToDecimal(k)
                                    \o <<".">> \o ExtOf(settings.file_format)]

---------------------------------------------------------------------------
(* Further properties of the reply processor, under SpecThread *)

\* the replies of a comment as a set
Replies(node) ==
    LET kids == Field(node, "children", <<>>) IN { kids[i] : i \in 1..Len(kids) }

WithinLimit(n) ==
    settings.reply_depth_max = -1 \/ Field(n, "depth", 0) <= settings.reply_depth_max

BlankBody(n) == Trim(Field(n, "body", <<>>)) = <<>>

\* the descendants of node the flattener's loop inserts: within the limit,
\* with a non-blank body, below comments that were inserted
RECURSIVE KeptIn(_)
KeptIn(node) ==
    UNION { IF WithinLimit(c) /\ ~BlankBody(c) THEN {c} \cup KeptIn(c) ELSE {} :
            c \in Replies(node) }

\* the descendants of node the loop reaches within the limit and drops for
\* their blank body
RECURSIVE BlankIn(_)
BlankIn(node) ==
    UNION { IF ~WithinLimit(c) THEN {}
            ELSE IF BlankBody(c) THEN {c} ELSE BlankIn(c) :
            c \in Replies(node) }

\* the comment at the place pos of the listing
RECURSIVE Below(_, _)
Below(node, path) ==
    IF path = <<>> THEN node ELSE Below(node.children[Head(path)], Tail(path))

CommentAt(pos) == Below(replies_data[Head(pos)], Tail(pos))

HeaderLines == { i \in 1..Len(lines) : lines[i].kind = "header" }

\* the header lines of descendants: the place has more than one index
ChildHeaderLines == { i \in HeaderLines : Len(lines[i].reply) > 1 }

(* C24 as stated: the descendants dropped for an empty or whitespace-only  *)
(* body are counted in the total of the reply-count line, on top of the    *)
(* entries the flattener returns, and no comment block is rendered for     *)
(* them.                                                                   *)
C24_BlankDescendantsCounted ==
    pc = "done" =>
        /\ lines[1].total >=
              Len(replies_data)
              + Sum([i \in 1..Len(replies_data) |->
                        Cardinality(DOMAIN Flattened(replies_data[i]))
                        + Cardinality(BlankIn(replies_data[i]))])
        /\ \A i \in 1..Len(replies_data) : \A b \in BlankIn(replies_data[i]) :
              \A j \in HeaderLines : lines[j].reply # b.pos

(* C24 as amended: a descendant with an empty or whitespace-only body is   *)
(* not counted in the total and no comment block is rendered for it: the   *)
(* total is the number of top-level comments plus, for each, the number of *)
(* ids of its descendants with a non-blank body that the flattener keeps.  *)
C24_BlankDescendantsNotCounted ==
    pc = "done" =>
        /\ lines[1].total =
              Len(replies_data)
              + Sum([i \in 1..Len(replies_data) |->
                        Cardinality({ Field(n, "id", <<>>) : n \in KeptIn(replies_data[i]) })])
        /\ \A i \in 1..Len(replies_data) : \A b \in BlankIn(replies_data[i]) :
              \A j \in HeaderLines : lines[j].reply # b.pos

\* one rendered top-level comment with a whitespace-only and an empty reply
\* next to three replies with a body, no depth limit: the total is 4
C24_Witness ==
    /\ pc = "done"
    /\ Len(replies_data) = 1
    /\ ~Skipped(replies_data[1])
    /\ settings.reply_depth_max = -1
    /\ Cardinality(BlankIn(replies_data[1])) = 2
    /\ \E b \in BlankIn(replies_data[1]) : Field(b, "body", <<>>) = <<" ">>
    /\ Cardinality(KeptIn(replies_data[1])) = 3
    /\ lines[1].total = 4
    /\ Cardinality(HeaderLines) = 4

(* C25: the header of every rendered descendant with payload depth d >= 0  *)
(* is indented by exactly d tabs, and its colour glyph is the (d+1)-th     *)
(* entry of the palette when colours are on and d is less than the size of *)
(* the palette, and empty otherwise.                                       *)
C25_IndentAndGlyphByDepth ==
    pc = "done" =>
        \A i \in ChildHeaderLines :
            LET d == Field(CommentAt(lines[i].reply), "depth", 0) IN
            d >= 0 =>
                /\ lines[i].indent = d
                /\ Tabs(lines[i].indent) = [k \in 1..d |-> "\t"]
                /\ lines[i].color =
                      IF settings.reply_depth_color_indicators /\ d < Len(Colors)
                      THEN Colors[d + 1] ELSE ""

\* with colours on, descendants at depth 0, 8 and 9 were rendered with the
\* first glyph, the last glyph and no glyph
C25_Witness ==
    /\ pc = "done"
    /\ settings.reply_depth_color_indicators
    /\ \E i, j, k \in ChildHeaderLines :
          /\ lines[i].indent = 0 /\ lines[i].color = Colors[1]
          /\ lines[j].indent = 8 /\ lines[j].color = Colors[9]
          /\ lines[k].indent = Len(Colors) /\ lines[k].color = ""

(* C27: the total of the reply-count line is at least the number of        *)
(* comment header lines of the document, top-level comments and            *)
(* descendants together, for every listing and configuration.              *)
C27_CountAtLeastHeaders ==
    pc = "done" => lines[1].total >= Cardinality(HeaderLines)

\* a skipped comment with replies and a rendered one with replies, under a
\* depth limit: headers were emitted and the total exceeds their number
C27_Witness ==
    /\ pc = "done"
    /\ settings.reply_depth_max = 1
    /\ \E i, j \in 1..Len(replies_data) :
          /\ Skipped(replies_data[i]) /\ DOMAIN Flattened(replies_data[i]) # {}
          /\ ~Skipped(replies_data[j]) /\ DOMAIN Flattened(replies_data[j]) # {}
    /\ ChildHeaderLines # {}
    /\ lines[1].total > Cardinality(HeaderLines)

---------------------------------------------------------------------------
(* The single-function renderer, post_renderer.rs: build_post_content with *)
(* every step inline.  The fragments are the records of the modular        *)
(* renderer, so that the two documents can be compared.  Its media block   *)
(* is the chain of media_handler.rs, line for line.                        *)

post_renderer_build_post_content(post, listing, conf, colors, environment) ==
    LET post_title == Field(post, "title", <<"Untitled">>)
        post_author == Field(post, "author", <<"[unknown]">>)
        subreddit == Field(post, "subreddit_name_prefixed", <<>>)
        post_ups == Field(post, "ups", 0)
        post_locked == Field(post, "locked", FALSE)
        post_selftext == Field(post, "selftext", <<>>)
        post_url == Field(post, "url", <<>>)
        post_timestamp == IF "created_utc" \in DOMAIN post
                          THEN FormatDateTime(post.created_utc) ELSE ""
        Upvotes(ups) ==
            IF conf.show_upvotes /\ ups > 0
            THEN IF ups >= 1000
                 THEN <<"^", " ">> \o ToDecimal(ups \div 1000) \o <<"k">>
                 ELSE <<"^", " ">> \o ToDecimal(ups)
            ELSE <<>>
        Stamp(created_utc) ==
            IF conf.show_timestamp /\ created_utc > 0
            THEN <<"_( ", FormatDateTime(created_utc), " )_">> ELSE <<>>
        Link(author) ==
            <<"[">> \o author \o <<"](https://www.reddit.com/user/">> \o author \o <<")">>
        timestamp_display == IF conf.show_timestamp /\ post_timestamp # ""
                             THEN <<"_( ", post_timestamp, " )_">> ELSE <<>>
        lock_msg == IF post_locked THEN <<[kind |-> "lock", subreddit |-> subreddit]>> ELSE <<>>
        RECURSIVE Escaped(_)
        Escaped(text) ==
            IF text = <<>> THEN <<>>
            ELSE LET c == Head(text) IN
                 (CASE c = "&amp;" -> <<"&">>
                    [] c = "&lt;" -> <<"<">>
                    [] c = "&gt;" -> <<">">>
                    [] c = "&quot;" -> <<"\"">>
                    [] c = "\n" -> <<"\n", "> ">>
                    [] OTHER -> <<c>>) \o Escaped(Tail(text))
        selftext == IF post_selftext # <<>>
                    THEN <<[kind |-> "selftext", text |-> <<"> ">> \o Escaped(post_selftext)]>>
                    ELSE <<>>
        head == <<[kind |-> "post_header", subreddit |-> subreddit, author |-> post_author,
                   upvotes |-> Upvotes(post_ups), timestamp |-> timestamp_display],
                  [kind |-> "title", title |-> post_title],
                  [kind |-> "link", url |-> post_url]>>
                \o lock_msg \o selftext
        media == IF conf.enable_media_downloads THEN process_media(post, environment)
                 ELSE [ok |-> TRUE, out |-> <<>>]
        total_replies ==
            Len(listing)
            + Sum([i \in 1..Len(listing) |->
                      Cardinality(DOMAIN get_replies(listing[i], conf.reply_depth_max))])
        Filtered(author, body, ups) ==
            apply_filter(author, body, ups, conf.filters.keywords, conf.filters.authors,
                         conf.filters.min_upvotes, conf.filters.regexes, conf.filtered_message)
        RECURSIVE Formatted(_)
        Formatted(text) ==
            IF text = <<>> THEN <<>>
            ELSE LET c == Head(text) IN
                 (CASE c = "&gt;" -> <<">">>
                    [] c = "\n" -> <<"\n", "\t">>
                    [] c = "\r" -> <<>>
                    [] OTHER -> <<c>>) \o Formatted(Tail(text))
        RECURSIVE ChildFormatted(_, _)
        ChildFormatted(text, cdepth) ==
            IF text = <<>> THEN <<>>
            ELSE LET c == Head(text) IN
                 (CASE c = "&gt;" -> <<">">>
                    [] c = "&amp;#32;" -> <<" ">>
                    [] c = "^^[" -> <<"[">>
                    [] c = "^^(" -> <<"(">>
                    [] c = "\n" -> <<"\n">> \o Tabs(cdepth) \o <<"\t">>
                    [] OTHER -> <<c>>) \o ChildFormatted(Tail(text), cdepth)
        Child(child_info) ==
            LET cdepth == child_info.depth
                child_reply == child_info.child_reply
                child_author == Field(child_reply, "author", <<>>)
                child_ups == Field(child_reply, "ups", 0)
                child_body == Field(child_reply, "body", <<>>)
                child_created_utc == Field(child_reply, "created_utc", 0)
                color_symbol == IF conf.reply_depth_color_indicators /\ cdepth < Len(colors)
                                THEN colors[cdepth + 1] ELSE ""
                linked == IF child_author # <<>> /\ child_author # <<"[deleted]">>
                          THEN Link(child_author) ELSE child_author
                child_author_field == IF child_author = post_author /\ linked # <<>>
                                      THEN linked \o <<" (OP)">> ELSE linked
                header == [kind |-> "header", indent |-> cdepth, reply |-> child_reply.pos,
                           color |-> color_symbol, author |-> child_author_field,
                           upvotes |-> Upvotes(child_ups),
                           timestamp |-> Stamp(child_created_utc)]
            IN IF Trim(child_body) = <<>> THEN <<header>>
               ELSE IF child_body = <<"[deleted]">>
               THEN <<header, [kind |-> "deleted", indent |-> cdepth + 1, text |-> <<>>]>>
               ELSE <<header,
                      [kind |-> "body", indent |-> cdepth + 1, of |-> child_body,
                       text |-> ChildFormatted(Filtered(child_author, child_body, child_ups),
                                               cdepth)]>>
        RECURSIVE Children(_, _, _)
        Children(child_map, order, i) ==
            IF i > Len(order) THEN <<>>
            ELSE Child(child_map[order[i]]) \o Children(child_map, order, i + 1)
        Top(top_reply) ==
            IF "author" \notin DOMAIN top_reply THEN {<<>>}
            ELSE LET author == top_reply.author IN
                 IF author = <<>> THEN {<<>>}
                 ELSE IF author = <<"AutoModerator">> /\ ~conf.show_auto_mod_comment
                 THEN {<<>>}
                 ELSE LET depth_color == IF conf.reply_depth_color_indicators
                                         THEN (IF colors = <<>> THEN "" ELSE colors[1])
                                         ELSE ""
                          reply_ups == Field(top_reply, "ups", 0)
                          linked == IF author # <<"[deleted]">> THEN Link(author) ELSE author
                          author_field == IF author = post_author
                                          THEN linked \o <<" (OP)">> ELSE linked
                          header == [kind |-> "header", indent |-> 0, reply |-> top_reply.pos,
                                     color |-> depth_color, author |-> author_field,
                                     upvotes |-> Upvotes(reply_ups),
                                     timestamp |-> Stamp(Field(top_reply, "created_utc", 0))]
                          body == Field(top_reply, "body", <<>>)
                          child_map == get_replies(top_reply, conf.reply_depth_max)
                          separator == IF conf.line_break_between_parent_replies
                                       THEN <<[kind |-> "rule"]>> ELSE <<>>
                      IN IF Trim(body) = <<>> THEN {<<header>>}           \* continue
                         ELSE { <<header,
                                  IF body = <<"[deleted]">>
                                  THEN [kind |-> "deleted", indent |-> 1, text |-> <<>>]
                                  ELSE [kind |-> "body", indent |-> 1, of |-> body,
                                        text |-> Formatted(Filtered(author, body, reply_ups))]>>
                                \o Children(child_map, order, 1) \o separator :
                                  order \in IterationOrders(child_map) }
        RECURSIVE Tops(_)
        Tops(i) ==
            IF i > Len(listing) THEN {<<>>}
            ELSE { a \o b : a \in Top(listing[i]), b \in Tops(i + 1) }
    IN IF ~media.ok THEN {[ok |-> FALSE, out |-> head \o media.out]}
       ELSE { [ok |-> TRUE,
               out |-> head \o media.out
                       \o <<[kind |-> "count", total |-> total_replies], [kind |-> "rule"]>>
                       \o t \o <<[kind |-> "newline"]>>] : t \in Tops(1) }

(* C28: with media capture disabled, the document of the modular renderer  *)
(* is one the single-function renderer of post_renderer.rs gives for the   *)
(* same post, listing and configuration.                                   *)
C28_RenderersAgree ==
    (pc = "built" /\ ~settings.enable_media_downloads) =>
        [ok |-> result.ok, out |-> lines]
            \in post_renderer_build_post_content(post_data, replies_data, settings, Colors, env)

---------------------------------------------------------------------------
(* The run over the list of urls, main.rs: process_urls_with_progress and  *)
(* process_single_url.  env gives, for each url of the list, the step of   *)
(* process_single_url that fails for it ("none" when every step succeeds); *)
(* probed is the log of the steps executed, resolved the urls whose        *)
(* iteration began, writes the documents written.                          *)

\* most urls of a run
MaxUrls == 3

\* the steps of process_single_url, in the order of the code
Steps == <<"valid", "fetch", "path", "render", "write">>

Faults == {"none"} \cup { Steps[k] : k \in 1..Len(Steps) }

(* process_single_url without the `?` on build_and_format_content *)
process_single_url_unchecked_render(step, ok) ==
    CASE step = "valid" -> IF ok THEN "fetch" ELSE "return_ok"
      [] step = "fetch" -> IF ok THEN "path" ELSE "return_err"
      [] step = "path" -> IF ok THEN "render" ELSE "return_err"
      [] step = "render" -> "write"
      [] step = "write" -> IF ok THEN "return_ok" ELSE "return_err"

\* process_single_url: what follows a step: an invalid url returns Ok(()),
\* each `?` returns the error, the last step returns Ok(())
process_single_url(step, ok) ==
    CASE step = "valid" -> IF ok THEN "fetch" ELSE "return_ok"
      [] step = "fetch" -> IF ok THEN "path" ELSE "return_err"
      [] step = "path" -> IF ok THEN "render" ELSE "return_err"
      [] step = "render" -> IF ok THEN "write" ELSE "return_err"
      [] step = "write" -> IF ok THEN "return_ok" ELSE "return_err"

(* the match of the loop that leaves the loop on an error *)
match_result_break(run, returned, total) ==
    IF returned = "return_ok"
    THEN [run EXCEPT !.successful_count = @ + 1]
    ELSE [run EXCEPT !.failed_count = @ + 1, !.i = total]

\* the match on the result of process_single_url: one of the counters is
\* incremented and the loop goes on
match_result(run, returned, total) ==
    IF returned = "return_ok"
    THEN [run EXCEPT !.successful_count = @ + 1]
    ELSE [run EXCEPT !.failed_count = @ + 1]

InitMain ==
    /\ pc = "loop"
    /\ \E n \in 0..MaxUrls : env \in [1..n -> Faults]
    /\ job = [i |-> 0, successful_count |-> 0, failed_count |-> 0]
    /\ probed = <<>>
    /\ resolved = <<>>
    /\ writes = <<>>
    /\ settings = Unused
    /\ files = Unused
    /\ dirs = {}
    /\ target_path = Unused
    /\ post_data = Unused
    /\ replies_data = <<>>
    /\ result = Unused
    /\ reply_obj = Unused
    /\ reply_depth_max = 0
    /\ replies_extras = EmptyMap
    /\ lines = <<>>
    /\ filter_in = Unused
    /\ filter_out = Unused
    /\ FmtUnused

mainUnchanged ==
    /\ UNCHANGED <<env, settings, files, dirs, target_path, post_data, replies_data, result>>
    /\ UNCHANGED <<replyVars, filterVars, fmtVars>>

\* the head of the for loop: the next url of the list, or the return of the
\* two counters
ProcessUrlsWithProgress ==
    /\ pc = "loop"
    /\ IF job.i < Len(env)
       THEN /\ job' = [job EXCEPT !.i = @ + 1]
            /\ resolved' = Append(resolved, job.i + 1)
            /\ pc' = "valid"
       ELSE /\ pc' = "done"
            /\ UNCHANGED <<job, resolved>>
    /\ UNCHANGED <<probed, writes>>
    /\ mainUnchanged

\* one step of process_single_url for the current url, then the next step
\* or the return to the match of the loop
RunStep(step) ==
    /\ pc = step
    /\ LET ok == env[job.i] # step
           next == process_single_url(step, ok)
       IN /\ probed' = Append(probed, [url |-> job.i, step |-> step, ok |-> ok])
          /\ writes' = IF step = "write" /\ ok
                       THEN Append(writes, [url |-> job.i, at |-> Len(probed) + 1])
                       ELSE writes
          /\ IF next \in {"return_ok", "return_err"}
             THEN /\ job' = match_result(job, next, Len(env))
                  /\ pc' = "loop"
             ELSE /\ job' = job
                  /\ pc' = next
    /\ UNCHANGED resolved
    /\ mainUnchanged

ValidUrl == RunStep("valid")

FetchAndParsePostData == RunStep("fetch")

GenerateTargetPath == RunStep("path")

BuildAndFormatContent == RunStep("render")

MainWriteToFile == RunStep("write")

NextMain ==
    \/ ProcessUrlsWithProgress
    \/ ValidUrl
    \/ FetchAndParsePostData
    \/ GenerateTargetPath
    \/ BuildAndFormatContent
    \/ MainWriteToFile

SpecMain == InitMain /\ [][NextMain]_vars

\* the log entries of the url at index u, in order
StepsOf(u) ==
    LET IsOf(e) == e.url = u
        own == SelectSeq(probed, IsOf)
    IN [k \in 1..Len(own) |-> <<own[k].step, own[k].ok>>]

C30_WriteAfterAllSteps ==
    /\ \A w \in 1..Len(writes) :
          StepsOf(writes[w].url) =
              <<<<"valid", TRUE>>, <<"fetch", TRUE>>, <<"path", TRUE>>,
                <<"render", TRUE>>, <<"write", TRUE>>>>
    /\ \A u \in 1..Len(env) :
          env[u] \in {"valid", "fetch", "path", "render"} =>
              \A w \in 1..Len(writes) : writes[w].url # u
    /\ \A w1, w2 \in 1..Len(writes) : w1 # w2 => writes[w1].url # writes[w2].url

\* a url whose rendering failed was left without a document and the url
\* after it was written
C30_Witness ==
    /\ pc = "done"
    /\ Len(env) >= 2
    /\ env[1] = "render"
    /\ StepsOf(1) = <<<<"valid", TRUE>>, <<"fetch", TRUE>>, <<"path", TRUE>>, <<"render", FALSE>>>>
    /\ env[2] = "none"
    /\ \E w \in 1..Len(writes) : writes[w].url = 2

=============================================================================
